---- MODULE Spec2Model ----
(***************************************************************************)
(* A model of the Braze MCP write server (src/braze_mcp_write):            *)
(*   - utils/safety.py : the sliding-window RateLimiter and the safety     *)
(*     decorators (validate_write_enabled, validate_workspace_safety,      *)
(*     require_confirmation, rate_limit, supports_dry_run) and their       *)
(*     composition safe_write_operation;                                   *)
(*   - tools/*.py      : the registered tool coroutines;                   *)
(*   - server.py       : the dispatcher call_function.                     *)
(*                                                                         *)
(* Time is counted in ticks of 1/TicksPerSecond second: datetime.now() has *)
(* sub-second resolution while window_seconds is a whole number of         *)
(* seconds.  Python strings that the code inspects character by character  *)
(* (the allow-list setting, the patterns, the base address) are tuples of  *)
(* one-character strings.  None is the string "None"; an optional integer  *)
(* is <<>> (None) or <<n>>.                                                *)
(*                                                                         *)
(* asyncio is cooperative: a coroutine runs without interruption until it  *)
(* awaits something that is not ready.  The decorators and the dispatcher  *)
(* only await coroutines they call themselves, so the one suspension point *)
(* of a call is the HTTP request inside the wrapped operation.  An action  *)
(* of the model is therefore a whole run from one suspension point to the  *)
(* next.                                                                   *)
(***************************************************************************)
EXTENDS Integers, Sequences, FiniteSets, TLC

VARIABLES
    WRITE_ENABLED,              \* safety.py:25
    ALLOW_PRODUCTION,           \* safety.py:26
    DRY_RUN_DEFAULT,            \* safety.py:27
    ALLOWED_WORKSPACE_PATTERNS, \* safety.py:30-32, a tuple of strings
    now,                        \* the clock read by datetime.now(), in ticks
    requests,                   \* rate_limiter.requests: operation -> timestamps
    limit,                      \* the limit the operations are rate limited with
    window_seconds,             \* the window the operations are rate limited with
    calls,                      \* history: every check_limit call, per operation
    decorated,                  \* the decorator stack applied to the operation  
    pc,                         \* per task: where the coroutine is suspended
    last,                       \* the most recent invocation of the decorated operation
    FUNCTION_REGISTRY,          \* registry_builder.py:419
    AVAILABLE_FUNCTION_NAMES,   \* server.py:29
    call,                       \* the most recent call_function invocation
    installed,                  \* which tools package the process finds installed
    phase,                      \* how far the start of the process has come
    builds,                     \* history: the runs of build_function_registry
    listing,                    \* the most recent list_functions result
    environ,                    \* os.environ: the variables set, as strings
    lifespan,                   \* braze_lifespan: where it is, the clients it made
    inspected,                  \* a parameter under extraction: its annotation
    param_info                  \* the type tag extracted for it, once it is

config == <<WRITE_ENABLED, ALLOW_PRODUCTION, DRY_RUN_DEFAULT, ALLOWED_WORKSPACE_PATTERNS>>
limiter == <<now, requests, limit, window_seconds, calls>>
pipeline == <<decorated, pc, last>>
dispatcher == <<FUNCTION_REGISTRY, AVAILABLE_FUNCTION_NAMES, call>>
startup == <<installed, phase, builds, listing>>
lifetime == <<environ, lifespan>>
extraction == <<inspected, param_info>>
vars == <<config, limiter, pipeline, dispatcher, startup, lifetime, extraction>>

----------------------------------------------------------------------------
(* Bounds of the model *)

TicksPerSecond == 2
MaxLimit == 2
MaxWindow == 2
MaxTime == 5
MaxCalls == 4
MaxTasks == 2
MaxAlternatives == 2

----------------------------------------------------------------------------
(* Time and formatting *)

\* timedelta(seconds=window_seconds), in ticks
timedelta(seconds) == seconds * TicksPerSecond

\* f"{wait_time:.0f}": a duration in ticks printed as a whole number of
\* seconds, rounded half to even as Python's float formatting does.
FormatSeconds(ticks) ==
    LET q == ticks \div TicksPerSecond
        r == ticks % TicksPerSecond
    IN  IF 2 * r < TicksPerSecond THEN q
        ELSE IF 2 * r > TicksPerSecond THEN q + 1
        ELSE IF q % 2 = 0 THEN q ELSE q + 1

----------------------------------------------------------------------------
(* RateLimiter (safety.py:43-79) *)

OpNames == {"send_campaign", "update_catalog_items"}

\* RateLimiter.__init__: defaultdict(list)
RateLimiterInit == [o \in OpNames |-> <<>>]

\* the list comprehension of line 65
CleanOld_inclusive(timestamps, cutoff) == SelectSeq(timestamps, LAMBDA t : t >= cutoff)
CleanOld(timestamps, cutoff) == SelectSeq(timestamps, LAMBDA t : t > cutoff)

\* the comparison of line 69
AtLimit_strict(current_count, lim) == current_count > lim
AtLimit(current_count, lim) == current_count >= lim

\* the append of line 78
Record_dropped(timestamps, t) == timestamps
Record(timestamps, t) == Append(timestamps, t)

\* check_limit(operation, limit, window_seconds) called at clock value t on
\* the limiter state reqs.  The result carries the limiter state it leaves:
\* the pruned list is stored before the count is compared, and the index
\* [0] of line 70 raises IndexError on an empty list.
check_limit(reqs, operation, lim, window, t) ==
    LET cutoff == t - timedelta(window)
        kept == CleanOld(reqs[operation], cutoff)
        current_count == Len(kept)
        cleaned == [reqs EXCEPT ![operation] = kept]
    IN  IF AtLimit(current_count, lim)
        THEN IF kept = <<>>
             THEN [raised |-> "IndexError", allowed |-> FALSE, kind |-> "none",
                   operation |-> operation, count |-> current_count, limit |-> lim,
                   wait |-> 0, wait_ticks |-> 0, requests |-> cleaned]
             ELSE [raised |-> "none", allowed |-> FALSE, kind |-> "exceeded",
                   operation |-> operation, count |-> current_count, limit |-> lim,
                   wait |-> FormatSeconds(kept[1] - cutoff),
                   wait_ticks |-> kept[1] - cutoff, requests |-> cleaned]
        ELSE [raised |-> "none", allowed |-> TRUE, kind |-> "OK",
              operation |-> operation, count |-> current_count + 1, limit |-> lim,
              wait |-> 0, wait_ticks |-> 0,
              requests |-> [cleaned EXCEPT ![operation] = Record(kept, t)]]

\* the history entry of one check_limit call
CallEntry(r, t, before) ==
    [t |-> t, raised |-> r.raised, allowed |-> r.allowed, kind |-> r.kind,
     count |-> r.count, limit |-> r.limit, wait |-> r.wait,
     wait_ticks |-> r.wait_ticks, before |-> before, after |-> r.requests]

\* the window the operations are rate limited with, in ticks
Window == timedelta(window_seconds)

TotalCalls == Len(calls["send_campaign"]) + Len(calls["update_catalog_items"])

NoLast == [kind |-> "none"]

\* the coroutines the event loop runs; one that is not running a call
Tasks == 1..MaxTasks
Idle == [at |-> "idle", since |-> 0]

NoCall == [kind |-> "none"]

\* A direct call of rate_limiter.check_limit(op, limit, window_seconds)
CheckLimit(op) ==
    /\ TotalCalls < MaxCalls
    /\ LET r == check_limit(requests, op, limit, window_seconds, now)
       IN  /\ requests' = r.requests
           /\ calls' = [calls EXCEPT ![op] = Append(@, CallEntry(r, now, requests))]
    /\ UNCHANGED <<extraction, lifetime, startup, config, now, limit, window_seconds, pipeline, dispatcher>>

\* The clock advances (datetime.now() is read at non-decreasing values)
Tick ==
    /\ now < MaxTime
    /\ now' = now + 1
    /\ UNCHANGED <<extraction, lifetime, startup, config, requests, limit, window_seconds, calls, pipeline, dispatcher>>


----------------------------------------------------------------------------
(* Strings: tuples of one-character strings *)

RECURSIVE SplitFrom(_, _, _, _)
SplitFrom(s, i, cur, acc) ==
    IF i > Len(s) THEN Append(acc, cur)
    ELSE IF s[i] = "," THEN SplitFrom(s, i + 1, <<>>, Append(acc, cur))
    ELSE SplitFrom(s, i + 1, Append(cur, s[i]), acc)

\* str.split(","): the pieces between commas; one empty piece for ""
split(s) == SplitFrom(s, 1, <<>>, <<>>)

RECURSIVE lstrip(_)
lstrip(s) == IF s # <<>> /\ Head(s) = " " THEN lstrip(Tail(s)) ELSE s

RECURSIVE rstrip(_)
rstrip(s) == IF s # <<>> /\ s[Len(s)] = " " THEN rstrip(SubSeq(s, 1, Len(s) - 1)) ELSE s

\* str.strip()
strip(s) == rstrip(lstrip(s))

\* Python's `sub in s` on strings: true for the empty sub
Contains_prefix(sub, s) == Len(sub) <= Len(s) /\ SubSeq(s, 1, Len(sub)) = sub
Contains(sub, s) ==
    \E i \in 0..(Len(s) - Len(sub)) : SubSeq(s, i + 1, i + Len(sub)) = sub

\* the values of BRAZE_ALLOWED_WORKSPACES the model starts from:
\* "demo-,poc-,test-" (the default of safety.py:31), "" , "demo-," and " poc- "
DefaultWorkspaces ==
    <<"d", "e", "m", "o", "-", ",", "p", "o", "c", "-", ",", "t", "e", "s", "t", "-">>
WorkspaceSettings ==
    { DefaultWorkspaces,
      <<>>,
      <<"d", "e", "m", "o", "-", ",">>,
      <<" ", "p", "o", "c", "-", " ">> }

\* base addresses: "r.demo-east.io", "r.prod-east.io", "poc-1.io"
Url_demo_east == <<"r", ".", "d", "e", "m", "o", "-", "e", "a", "s", "t", ".", "i", "o">>
Url_prod_east == <<"r", ".", "p", "r", "o", "d", "-", "e", "a", "s", "t", ".", "i", "o">>
Url_poc == <<"p", "o", "c", "-", "1", ".", "i", "o">>
BaseUrls == {Url_demo_east, Url_prod_east, Url_poc}

\* the MCP context handed to an operation: its request_context is a
\* BrazeContext with a base_url, or it is not (context.py:43)
Contexts ==
    {[braze |-> FALSE, base_url |-> <<>>, http_client |-> 0]}
    \cup {[braze |-> TRUE, base_url |-> u, http_client |-> 1] : u \in BaseUrls}

----------------------------------------------------------------------------
(* Keyword arguments: a function from the names given to their values *)

IsTruthy(v) == v \notin {"False", "None", ""}

KwargNames(confirm, dry_run) ==
    {"campaign_id"} \cup (IF confirm = "absent" THEN {} ELSE {"confirm"})
                    \cup (IF dry_run = "absent" THEN {} ELSE {"dry_run"})

MakeKwargs(confirm, dry_run) ==
    [k \in KwargNames(confirm, dry_run) |->
        IF k = "confirm" THEN confirm ELSE IF k = "dry_run" THEN dry_run ELSE "c1"]

ConfirmValues == {"absent", "True", "False"}
DryRunValues == {"absent", "True", "False", "None"}

\* the keyword arguments left once one is popped or bound to a keyword-only
\* parameter of the wrapper
Without_kept(kwargs, name) == kwargs
Without(kwargs, name) == [k \in (DOMAIN kwargs) \ {name} |-> kwargs[k]]

----------------------------------------------------------------------------
(* The safety decorators (safety.py:90-257).  A decorated operation is the *)
(* tuple of its wrappers, outermost first; Invoke runs a call through them *)
(* and yields what the call did: the wrappers entered in order (trace),    *)
(* how it ended (kind: "raise", "return" or "invoked" when the wrapped     *)
(* operation was reached), which wrapper ended it (by), the value, the     *)
(* keyword arguments the wrapped operation received, how many times it was *)
(* invoked, the limiter state left and the check_limit call made, if any.  *)

Wrapper(name, lim, window) == [name |-> name, limit |-> lim, window |-> window]

Outcome(kind, by, exc, value, kwargs, n, reqs, rl) ==
    [trace |-> <<by>>, kind |-> kind, by |-> by, exc |-> exc, value |-> value,
     received |-> kwargs, invocations |-> n, requests |-> reqs, rl |-> rl]

Entered(name, r) == [r EXCEPT !.trace = <<name>> \o @]

RECURSIVE Invoke(_, _, _, _, _, _)

\* the wrapped operation itself is reached
func(fname, ctx, kwargs, reqs, t) ==
    Outcome("invoked", "func", "none", [operation |-> fname, ctx |-> ctx], kwargs, 1,
            reqs, <<>>)

\* validate_write_enabled.wrapper (safety.py:98-105)
validate_write_enabled_open(rest, fname, ctx, kwargs, reqs, t) ==
    Entered("validate_write_enabled", Invoke(rest, fname, ctx, kwargs, reqs, t))
validate_write_enabled(rest, fname, ctx, kwargs, reqs, t) ==
    IF ~WRITE_ENABLED
    THEN Outcome("raise", "validate_write_enabled", "ValueError",
                 [text |-> "write_disabled", operation |-> fname], kwargs, 0, reqs, <<>>)
    ELSE Entered("validate_write_enabled", Invoke(rest, fname, ctx, kwargs, reqs, t))

\* the any(...) of safety.py:128-130
is_allowed_prefix(workspace_url) ==
    \E i \in 1..Len(ALLOWED_WORKSPACE_PATTERNS) :
        Contains_prefix(strip(ALLOWED_WORKSPACE_PATTERNS[i]), workspace_url)
is_allowed(workspace_url) ==
    \E i \in 1..Len(ALLOWED_WORKSPACE_PATTERNS) :
        Contains(strip(ALLOWED_WORKSPACE_PATTERNS[i]), workspace_url)

\* validate_workspace_safety.wrapper (safety.py:121-144); get_braze_context
\* raises when the context holds no BrazeContext (context.py:43-48)
validate_workspace_safety_no_override(rest, fname, ctx, kwargs, reqs, t) ==
    IF ~ctx.braze \/ ~is_allowed(ctx.base_url)
    THEN Outcome("raise", "validate_workspace_safety", "ValueError",
                 [text |-> "workspace_blocked", operation |-> fname], kwargs, 0, reqs, <<>>)
    ELSE Entered("validate_workspace_safety", Invoke(rest, fname, ctx, kwargs, reqs, t))
validate_workspace_safety(rest, fname, ctx, kwargs, reqs, t) ==
    IF ~ctx.braze
    THEN Outcome("raise", "validate_workspace_safety", "ValueError",
                 [text |-> "context_not_found", operation |-> fname], kwargs, 0, reqs, <<>>)
    ELSE IF ~ALLOW_PRODUCTION /\ ~is_allowed(ctx.base_url)
    THEN Outcome("raise", "validate_workspace_safety", "ValueError",
                 [text |-> "workspace_blocked", operation |-> fname,
                  workspace |-> ctx.base_url, patterns |-> ALLOWED_WORKSPACE_PATTERNS],
                 kwargs, 0, reqs, <<>>)
    ELSE Entered("validate_workspace_safety", Invoke(rest, fname, ctx, kwargs, reqs, t))

\* kwargs.pop("confirm", False) of safety.py:164
pop_confirm_default_true(kwargs) ==
    IF "confirm" \in DOMAIN kwargs THEN kwargs["confirm"] ELSE "True"
pop_confirm(kwargs) ==
    IF "confirm" \in DOMAIN kwargs THEN kwargs["confirm"] ELSE "False"

\* require_confirmation("destructive").wrapper (safety.py:158-182)
require_confirmation(rest, fname, ctx, kwargs, reqs, t) ==
    LET confirm == pop_confirm(kwargs)
        popped == Without(kwargs, "confirm")
    IN  IF ~IsTruthy(confirm)
        THEN Outcome("return", "require_confirmation", "none",
                     [error |-> "Destructive operation requires confirmation",
                      operation |-> fname,
                      message |-> "Add confirm=True parameter to proceed",
                      kwargs |-> popped],
                     popped, 0, reqs, <<>>)
        ELSE Entered("require_confirmation", Invoke(rest, fname, ctx, popped, reqs, t))

\* rate_limit(limit, window_seconds).wrapper (safety.py:199-213)
rate_limit_refund_dry_run(w, rest, fname, ctx, kwargs, reqs, t) ==
    LET r == check_limit(reqs, fname, w.limit, w.window, t)
        entry == <<CallEntry(r, t, reqs)>>
    IN  IF r.raised # "none"
        THEN Outcome("raise", "rate_limit", r.raised,
                     [text |-> "list index out of range", operation |-> fname],
                     kwargs, 0, r.requests, entry)
        ELSE IF ~r.allowed
        THEN Outcome("raise", "rate_limit", "ValueError",
                     [text |-> "rate_limit_exceeded", operation |-> fname,
                      count |-> r.count, limit |-> r.limit, wait |-> r.wait],
                     kwargs, 0, r.requests, entry)
        ELSE LET inner == Invoke(rest, fname, ctx, kwargs, r.requests, t)
             IN  [Entered("rate_limit", inner) EXCEPT
                    !.rl = entry \o @,
                    !.requests = IF inner.by = "supports_dry_run" THEN reqs ELSE @]
rate_limit(w, rest, fname, ctx, kwargs, reqs, t) ==
    LET r == check_limit(reqs, fname, w.limit, w.window, t)
        entry == <<CallEntry(r, t, reqs)>>
    IN  IF r.raised # "none"
        THEN Outcome("raise", "rate_limit", r.raised,
                     [text |-> "list index out of range", operation |-> fname],
                     kwargs, 0, r.requests, entry)
        ELSE IF ~r.allowed
        THEN Outcome("raise", "rate_limit", "ValueError",
                     [text |-> "rate_limit_exceeded", operation |-> fname,
                      count |-> r.count, limit |-> r.limit, wait |-> r.wait],
                     kwargs, 0, r.requests, entry)
        ELSE LET inner == Invoke(rest, fname, ctx, kwargs, r.requests, t)
             IN  [Entered("rate_limit", inner) EXCEPT !.rl = entry \o @]

\* should_dry_run of safety.py:236
should_dry_run_or(kwargs) ==
    LET dry_run == IF "dry_run" \in DOMAIN kwargs THEN kwargs["dry_run"] ELSE "None"
    IN  IsTruthy(dry_run) \/ DRY_RUN_DEFAULT
should_dry_run(kwargs) ==
    LET dry_run == IF "dry_run" \in DOMAIN kwargs THEN kwargs["dry_run"] ELSE "None"
    IN  IF dry_run # "None" THEN IsTruthy(dry_run) ELSE DRY_RUN_DEFAULT

\* supports_dry_run.wrapper (safety.py:233-255): dry_run is a keyword-only
\* parameter of the wrapper, so it is never part of kwargs
supports_dry_run(rest, fname, ctx, kwargs, reqs, t) ==
    LET others == Without(kwargs, "dry_run")
    IN  IF should_dry_run(kwargs)
        THEN Outcome("return", "supports_dry_run", "none",
                     [dry_run |-> TRUE, operation |-> fname, function |-> fname,
                      kwargs |-> others,
                      message |-> "This is a dry run. No actual API call was made."],
                     others, 0, reqs, <<>>)
        ELSE Entered("supports_dry_run", Invoke(rest, fname, ctx, others, reqs, t))

Invoke(wrappers, fname, ctx, kwargs, reqs, t) ==
    IF wrappers = <<>> THEN func(fname, ctx, kwargs, reqs, t)
    ELSE LET w == Head(wrappers)
             rest == Tail(wrappers)
         IN  CASE w.name = "validate_write_enabled" ->
                    validate_write_enabled(rest, fname, ctx, kwargs, reqs, t)
               [] w.name = "validate_workspace_safety" ->
                    validate_workspace_safety(rest, fname, ctx, kwargs, reqs, t)
               [] w.name = "require_confirmation" ->
                    require_confirmation(rest, fname, ctx, kwargs, reqs, t)
               [] w.name = "rate_limit" ->
                    rate_limit(w, rest, fname, ctx, kwargs, reqs, t)
               [] w.name = "supports_dry_run" ->
                    supports_dry_run(rest, fname, ctx, kwargs, reqs, t)

\* `if rate_limit_count and rate_limit_window` (safety.py:292): None and 0
\* are both false
Given(optional) == optional # <<>> /\ optional[1] # 0

\* safe_write_operation(rate_limit_count, rate_limit_window, require_confirm)
\* applied to an operation (safety.py:284-305): wrapping from the inside out
safe_write_operation_confirm_first(rate_limit_count, rate_limit_window, require_confirm) ==
    LET w1 == <<Wrapper("supports_dry_run", 0, 0)>>
        w2 == IF Given(rate_limit_count) /\ Given(rate_limit_window)
              THEN <<Wrapper("rate_limit", rate_limit_count[1], rate_limit_window[1])>> \o w1
              ELSE w1
        w3 == <<Wrapper("validate_workspace_safety", 0, 0)>> \o w2
        w4 == IF require_confirm THEN <<Wrapper("require_confirmation", 0, 0)>> \o w3 ELSE w3
    IN  <<Wrapper("validate_write_enabled", 0, 0)>> \o w4
safe_write_operation(rate_limit_count, rate_limit_window, require_confirm) ==
    LET w1 == <<Wrapper("supports_dry_run", 0, 0)>>
        w2 == IF Given(rate_limit_count) /\ Given(rate_limit_window)
              THEN <<Wrapper("rate_limit", rate_limit_count[1], rate_limit_window[1])>> \o w1
              ELSE w1
        w3 == IF require_confirm THEN <<Wrapper("require_confirmation", 0, 0)>> \o w2 ELSE w2
        w4 == <<Wrapper("validate_workspace_safety", 0, 0)>> \o w3
    IN  <<Wrapper("validate_write_enabled", 0, 0)>> \o w4

----------------------------------------------------------------------------
(* SpecGate: one operation decorated in one of the ways the module offers, *)
(* invoked again and again at one clock value with every combination of    *)
(* context, confirm and dry_run.                                           *)

OperationName == "send_campaign"

OptionalInts(max) == {<<>>} \cup {<<n>> : n \in 0..max}

\* the ways of decorating an operation: safe_write_operation with every
\* combination of its arguments, and each decorator on its own; limit and
\* window are the ones of the rate limit applied, 0 when none is
Decorations ==
    {[stack |-> safe_write_operation(c, w, rc),
      limit |-> IF Given(c) /\ Given(w) THEN c[1] ELSE 0,
      window |-> IF Given(c) /\ Given(w) THEN w[1] ELSE 0] :
        c \in OptionalInts(MaxLimit), w \in OptionalInts(MaxWindow), rc \in BOOLEAN}
    \cup {[stack |-> <<Wrapper("rate_limit", c, w)>>, limit |-> c, window |-> w] :
        c \in 0..MaxLimit, w \in 0..MaxWindow}
    \cup {[stack |-> <<Wrapper(n, 0, 0)>>, limit |-> 0, window |-> 0] :
        n \in {"validate_write_enabled", "validate_workspace_safety",
               "require_confirmation", "supports_dry_run"}}

LastOf(r, ctx, kwargs) ==
    [kind |-> r.kind, ctx |-> ctx, kwargs |-> kwargs, trace |-> r.trace, by |-> r.by,
     exc |-> r.exc, value |-> r.value, received |-> r.received,
     invocations |-> r.invocations, rl |-> r.rl]

\* One invocation of the decorated operation, up to the point where the
\* wrapped operation is reached or a wrapper ends the call
InvokeDecorated(ctx, confirm, dry_run) ==
    LET kwargs == MakeKwargs(confirm, dry_run)
        r == Invoke(decorated, OperationName, ctx, kwargs, requests, now)
    IN  /\ last = NoLast
        /\ r.rl # <<>> => TotalCalls < MaxCalls
        /\ requests' = r.requests
        /\ calls' = [calls EXCEPT ![OperationName] = @ \o r.rl]
        /\ last' = LastOf(r, ctx, kwargs)
        /\ UNCHANGED <<extraction, lifetime, startup, config, now, limit, window_seconds, decorated, pc, dispatcher>>

\* The caller takes the outcome; the next invocation can start
Return ==
    /\ last # NoLast
    /\ last' = NoLast
    /\ UNCHANGED <<extraction, lifetime, startup, config, limiter, decorated, pc, dispatcher>>


----------------------------------------------------------------------------
(* The tool modules: for every coroutine a module defines, its parameters  *)
(* after ctx, the required ones and the optional ones with their defaults. *)

Sig(required, optional) == [required |-> required, optional |-> optional]

campaigns_write ==
    [send_campaign |-> Sig({"campaign_id"},
        [send_id |-> "None", override_frequency_capping |-> "False", recipients |-> "None",
         segment_id |-> "None", broadcast |-> "False", dry_run |-> "False"]),
     schedule_campaign |-> Sig({"campaign_id", "send_at"},
        [recipients |-> "None", segment_id |-> "None", dry_run |-> "False"]),
     update_campaign_schedule |-> Sig({"campaign_id", "schedule_id", "send_at"},
        [dry_run |-> "False"]),
     delete_scheduled_campaign |-> Sig({"campaign_id", "schedule_id"},
        [dry_run |-> "False", confirm |-> "False"])]

canvas_write ==
    [trigger_canvas |-> Sig({"canvas_id"},
        [recipients |-> "None", canvas_entry_properties |-> "None", broadcast |-> "False",
         audience |-> "None", dry_run |-> "False"]),
     schedule_canvas |-> Sig({"canvas_id", "send_at"},
        [recipients |-> "None", canvas_entry_properties |-> "None", dry_run |-> "False"]),
     update_canvas_schedule |-> Sig({"canvas_id", "schedule_id", "send_at"},
        [dry_run |-> "False"]),
     delete_scheduled_canvas |-> Sig({"canvas_id", "schedule_id"},
        [dry_run |-> "False", confirm |-> "False"])]

catalogs_write ==
    [create_catalog_items |-> Sig({"catalog_name", "items"}, [dry_run |-> "False"]),
     update_catalog_items |-> Sig({"catalog_name", "items"}, [dry_run |-> "False"]),
     delete_catalog_items |-> Sig({"catalog_name", "item_ids"},
        [dry_run |-> "False", confirm |-> "False"]),
     create_catalog |-> Sig({"name", "description", "fields"}, [dry_run |-> "False"]),
     delete_catalog |-> Sig({"catalog_name"}, [dry_run |-> "False", confirm |-> "False"])]

content_blocks_write ==
    [create_content_block |-> Sig({"name", "content"},
        [description |-> "", content_type |-> "html", tags |-> "None", dry_run |-> "False"]),
     update_content_block |-> Sig({"content_block_id"},
        [name |-> "None", content |-> "None", description |-> "None", tags |-> "None",
         dry_run |-> "False"])]

users_write ==
    [track_user_data |-> Sig({},
        [attributes |-> "None", events |-> "None", purchases |-> "None", dry_run |-> "False"]),
     update_user_attributes |-> Sig({},
        [external_id |-> "None", user_alias |-> "None", attributes |-> "{}",
         update_existing_only |-> "False", dry_run |-> "False"]),
     track_event |-> Sig({"event_name"},
        [external_id |-> "None", user_alias |-> "None", time |-> "None", properties |-> "None",
         update_existing_only |-> "False", dry_run |-> "False"]),
     track_purchase |-> Sig({"product_id", "currency", "price"},
        [external_id |-> "None", user_alias |-> "None", quantity |-> "1", time |-> "None",
         properties |-> "None", update_existing_only |-> "False", dry_run |-> "False"]),
     delete_user |-> Sig({},
        [external_id |-> "None", user_alias |-> "None", braze_id |-> "None",
         dry_run |-> "False", confirm |-> "False"]),
     identify_users |-> Sig({"aliases_to_identify"}, [dry_run |-> "False"])]

\* the modules of the tools package as the repository has them, in the order
\* pkgutil.iter_modules yields them
ToolModules ==
    <<campaigns_write, canvas_write, catalogs_write, content_blocks_write, users_write>>

ModuleNames ==
    <<"campaigns_write", "canvas_write", "catalogs_write", "content_blocks_write",
      "users_write">>

\* inspect.Parameter.empty: the default of a parameter that declares none
empty == "inspect.Parameter.empty"

\* inspect.signature(func).parameters of a coroutine declared
\*     async def name(ctx: Context, <required>, <optional> = <default>)
Parameters(sig) ==
    [p \in {"ctx"} \cup sig.required \cup DOMAIN sig.optional |->
        [default |-> IF p \in DOMAIN sig.optional THEN sig.optional[p] ELSE empty]]

\* A member of a module as the registry builder sees it:
\*   id             the identity of the object, which a reference to it holds
\*   name           <<__name__>>, or <<>> for an object that has no __name__
\*   module         __module__, split at the dots
\*   iscoroutinefunction   what inspect.iscoroutinefunction answers
\*   parameters     inspect.signature(obj).parameters
\*   signature      "ok", or the exception inspect.signature raises
\*   get_type_hints "ok", or the exception typing.get_type_hints raises
\*   doc            <<the summary of __doc__>>, or <<>> when __doc__ is None
Function(name, module, sig) ==
    [id |-> <<module, name>>, name |-> <<name>>,
     module |-> <<"braze_mcp_write", "tools", module>>,
     iscoroutinefunction |-> TRUE, parameters |-> Parameters(sig),
     signature |-> "ok", get_type_hints |-> "ok", doc |-> <<"docstring">>]

\* make_request, which every tools module imports from braze_mcp_write.utils
\* (campaigns_write.py:11)
ImportedMember ==
    [id |-> <<"http", "make_request">>, name |-> <<"make_request">>,
     module |-> <<"braze_mcp_write", "utils", "http">>,
     iscoroutinefunction |-> TRUE,
     parameters |-> [p \in {"client", "base_url", "url_path", "params", "body", "method"} |->
                        [default |-> CASE p \in {"params", "body"} -> "None"
                                       [] p = "method" -> "GET"
                                       [] OTHER -> empty]],
     signature |-> "ok", get_type_hints |-> "ok", doc |-> <<"docstring">>]

\* A module of the tools package:
\*   import             "ok", or the exception importing it raises
\*   register_mcp_tools its __register_mcp_tools__ attribute
\*   members            what inspect.getmembers finds in it
Module(i) ==
    [name |-> ModuleNames[i], import |-> "ok", register_mcp_tools |-> TRUE,
     members |-> [n \in DOMAIN ToolModules[i] \cup {"make_request"} |->
                    IF n = "make_request" THEN ImportedMember
                    ELSE Function(n, ModuleNames[i], ToolModules[i][n])]]

\* the tools package of the repository
ToolsPackage == [i \in DOMAIN ToolModules |-> Module(i)]

ModuleOf(name) == CHOOSE i \in DOMAIN ToolModules : name \in DOMAIN ToolModules[i]

\* What a tools package differs from the repository's in: one module
\* (campaigns_write or users_write) with the outcome of its import and its
\* opt-in, and one member with the module it is bound in and the object
\* bound to it: send_campaign or delete_user where the repository defines
\* them, a private helper added to users_write, or a second coroutine of
\* the name of a tool defined in another module
ModuleVariants ==
    [module : {1, 5}, import : {"ok", "ImportError", "SyntaxError"},
     register_mcp_tools : BOOLEAN]

FunctionVariants(f) ==
    {[f EXCEPT !.name = n, !.signature = s, !.get_type_hints = h] :
        n \in {f.name, <<>>}, s \in {"ok", "ValueError"},
        h \in {"ok", "TypeError", "SyntaxError"}}
    \cup {[f EXCEPT !.iscoroutinefunction = FALSE],
          [f EXCEPT !.module = <<"braze_mcp_write", "tools_common">>]}

MemberVariants ==
    LET of(n) == {[member |-> n, at |-> ModuleOf(n), function |-> f] :
                    f \in FunctionVariants(ToolsPackage[ModuleOf(n)].members[n])}
        added(n, i, required) ==
            [member |-> n, at |-> i,
             function |-> Function(n, ModuleNames[i], Sig(required, <<>>))]
    IN  of("send_campaign") \cup of("delete_user")
        \cup {added("_build_payload", 5, {"payload"}),
              added("send_campaign", 5, {"user_id"}),
              added("delete_user", 1, {"campaign_id"})}
        \* ... or a functools.partial of a coroutine, which has no __name__
        \* and no type hints to read
        \cup {[added(n, 5, {"user_id"}) EXCEPT
                    !.function.name = <<>>, !.function.get_type_hints = "TypeError"] :
                n \in {"send_campaign"}}

Installs ==
    {[module |-> m.module, import |-> m.import, register_mcp_tools |-> m.register_mcp_tools,
      member |-> v.member, at |-> v.at, function |-> v.function] :
        m \in ModuleVariants, v \in MemberVariants}

\* the repository's package as it is
Repository ==
    [module |-> 1, import |-> "ok", register_mcp_tools |-> TRUE,
     member |-> "send_campaign", at |-> 1,
     function |-> ToolsPackage[1].members["send_campaign"]]

\* the modules of the tools package of an install
PackageOf(install) ==
    LET at == install.at
        varied == [ToolsPackage EXCEPT
                    ![install.module].import = install.import,
                    ![install.module].register_mcp_tools = install.register_mcp_tools]
    IN  [varied EXCEPT ![at].members =
            [n \in DOMAIN @ \cup {install.member} |->
                IF n = install.member THEN install.function ELSE @[n]]]

\* the modules of the braze_mcp_write.tools package the process finds
tools == PackageOf(installed)

\* the object a reference held by the registry points to
Deref(id) ==
    LET i == CHOOSE i \in DOMAIN ModuleNames : ModuleNames[i] = id[1]
    IN  tools[i].members[id[2]]

\* the parameters Python binds the keyword arguments of
\* `implementation(ctx, **parsed_parameters)` to: the declared ones after
\* ctx, which is passed by position (server.py:106)
Signature(fn) ==
    LET names == DOMAIN fn.parameters \ {"ctx"}
        optional == {p \in names : fn.parameters[p].default # empty}
    IN  Sig(names \ optional, [p \in optional |-> fn.parameters[p].default])

\* list(FUNCTION_REGISTRY.keys()): the names in insertion order, module by
\* module (pkgutil sorts the modules, inspect.getmembers sorts the names)
RegistrationOrder ==
    <<"delete_scheduled_campaign", "schedule_campaign", "send_campaign",
      "update_campaign_schedule",
      "delete_scheduled_canvas", "schedule_canvas", "trigger_canvas",
      "update_canvas_schedule",
      "create_catalog", "create_catalog_items", "delete_catalog",
      "delete_catalog_items", "update_catalog_items",
      "create_content_block", "update_content_block",
      "delete_user", "identify_users", "track_event", "track_purchase",
      "track_user_data", "update_user_attributes">>

----------------------------------------------------------------------------
(* The tools.  A tool ends by raising, by returning a value, or by         *)
(* awaiting an HTTP request: the value of a tool operator says which.      *)

Raise(exc, text) == [kind |-> "raise", exc |-> exc, text |-> text]
Returned(value) == [kind |-> "return", value |-> value]

\* get_braze_context (context.py:43-48)
get_braze_context(ctx) ==
    IF ~ctx.braze
    THEN Raise("ValueError", "Braze context not found")
    ELSE [kind |-> "ok", bctx |-> ctx]

\* make_request (http.py:44-66): the request sent to f"{base_url}/{url_path}"
make_request(bctx, url_path, method, operation) ==
    [kind |-> "request", client |-> bctx.http_client, method |-> method,
     base_url |-> bctx.base_url, url_path |-> url_path, operation |-> operation]

\* the tail every tool ends with:
\*     bctx = get_braze_context(ctx)
\*     response = await make_request(bctx.http_client, bctx.base_url, url_path, ...)
\*     return handle_response(response, dict, operation, logger)
ApiCall(ctx, url_path, method, operation) ==
    LET found == get_braze_context(ctx)
    IN  IF found.kind = "raise" THEN found
        ELSE make_request(found.bctx, url_path, method, operation)

ConfirmationRequired(message) ==
    Returned([error |-> "Confirmation required", message |-> message])

send_campaign(ctx, a) ==
    IF IsTruthy(a.broadcast) /\ ~IsTruthy(a.segment_id)
    THEN Raise("ValueError", "segment_id is required when broadcast=True")
    ELSE IF ~IsTruthy(a.broadcast) /\ ~IsTruthy(a.recipients)
    THEN Raise("ValueError", "recipients is required when broadcast=False")
    ELSE ApiCall(ctx, "campaigns/trigger/send", "POST", "send campaign")

schedule_campaign(ctx, a) ==
    IF ~IsTruthy(a.recipients) /\ ~IsTruthy(a.segment_id)
    THEN Raise("ValueError", "Must provide either recipients or segment_id")
    ELSE ApiCall(ctx, "campaigns/trigger/schedule/create", "POST", "schedule campaign")

update_campaign_schedule(ctx, a) ==
    ApiCall(ctx, "campaigns/trigger/schedule/update", "POST", "update campaign schedule")

delete_scheduled_campaign(ctx, a) ==
    IF ~IsTruthy(a.confirm) /\ ~IsTruthy(a.dry_run)
    THEN ConfirmationRequired("Set confirm=True to delete scheduled campaign")
    ELSE ApiCall(ctx, "campaigns/trigger/schedule/delete", "POST",
                 "delete scheduled campaign")

trigger_canvas(ctx, a) ==
    IF ~IsTruthy(a.broadcast) /\ ~IsTruthy(a.recipients)
    THEN Raise("ValueError", "recipients is required when broadcast=False")
    ELSE ApiCall(ctx, "canvas/trigger/send", "POST", "trigger canvas")

schedule_canvas(ctx, a) ==
    IF ~IsTruthy(a.recipients)
    THEN Raise("ValueError", "recipients is required for scheduled Canvas")
    ELSE ApiCall(ctx, "canvas/trigger/schedule/create", "POST", "schedule canvas")

update_canvas_schedule(ctx, a) ==
    ApiCall(ctx, "canvas/trigger/schedule/update", "POST", "update canvas schedule")

delete_scheduled_canvas(ctx, a) ==
    IF ~IsTruthy(a.confirm) /\ ~IsTruthy(a.dry_run)
    THEN ConfirmationRequired("Set confirm=True to delete scheduled canvas")
    ELSE ApiCall(ctx, "canvas/trigger/schedule/delete", "POST", "delete scheduled canvas")

create_catalog_items(ctx, a) ==
    ApiCall(ctx, "catalogs/{catalog_name}/items", "POST", "create catalog items")

update_catalog_items(ctx, a) ==
    ApiCall(ctx, "catalogs/{catalog_name}/items", "PUT", "update catalog items")

delete_catalog_items(ctx, a) ==
    IF ~IsTruthy(a.confirm) /\ ~IsTruthy(a.dry_run)
    THEN ConfirmationRequired("Set confirm=True to delete catalog items")
    ELSE ApiCall(ctx, "catalogs/{catalog_name}/items", "DELETE", "delete catalog items")

create_catalog(ctx, a) ==
    ApiCall(ctx, "catalogs", "POST", "create catalog")

delete_catalog(ctx, a) ==
    IF ~IsTruthy(a.confirm) /\ ~IsTruthy(a.dry_run)
    THEN ConfirmationRequired(
            "Set confirm=True to delete catalog. This will delete all items in the catalog.")
    ELSE ApiCall(ctx, "catalogs/{catalog_name}", "DELETE", "delete catalog")

create_content_block(ctx, a) ==
    ApiCall(ctx, "content_blocks/create", "POST", "create content block")

\* `is not None`: a field given as an empty value still counts
update_content_block(ctx, a) ==
    IF \A field \in {"name", "content", "description", "tags"} : a[field] = "None"
    THEN Raise("ValueError", "Must provide at least one field to update")
    ELSE ApiCall(ctx, "content_blocks/update", "POST", "update content block")

track_user_data(ctx, a) ==
    IF ~(IsTruthy(a.attributes) \/ IsTruthy(a.events) \/ IsTruthy(a.purchases))
    THEN Raise("ValueError", "Must provide at least one of: attributes, events, or purchases")
    ELSE ApiCall(ctx, "users/track", "POST", "track user data")

\* a one-element list, truthy
OneObject == "[obj]"

update_user_attributes(ctx, a) ==
    IF ~IsTruthy(a.external_id) /\ ~IsTruthy(a.user_alias)
    THEN Raise("ValueError", "Must provide either external_id or user_alias")
    ELSE IF a.attributes = "None"
    THEN Raise("AttributeError", "'NoneType' object has no attribute 'copy'")
    ELSE track_user_data(ctx, [attributes |-> OneObject, events |-> "None",
                               purchases |-> "None", dry_run |-> a.dry_run])

track_event(ctx, a) ==
    IF ~IsTruthy(a.external_id) /\ ~IsTruthy(a.user_alias)
    THEN Raise("ValueError", "Must provide either external_id or user_alias")
    ELSE track_user_data(ctx, [attributes |-> "None", events |-> OneObject,
                               purchases |-> "None", dry_run |-> a.dry_run])

track_purchase(ctx, a) ==
    IF ~IsTruthy(a.external_id) /\ ~IsTruthy(a.user_alias)
    THEN Raise("ValueError", "Must provide either external_id or user_alias")
    ELSE track_user_data(ctx, [attributes |-> "None", events |-> "None",
                               purchases |-> OneObject, dry_run |-> a.dry_run])

delete_user(ctx, a) ==
    IF ~(IsTruthy(a.external_id) \/ IsTruthy(a.user_alias) \/ IsTruthy(a.braze_id))
    THEN Raise("ValueError", "Must provide one of: external_id, user_alias, or braze_id")
    ELSE ApiCall(ctx, "users/delete", "POST", "delete user")

identify_users(ctx, a) ==
    ApiCall(ctx, "users/identify", "POST", "identify users")

\* func_info["implementation"]: the coroutine registered under the name
implementation(name, ctx, a) ==
    CASE name = "send_campaign" -> send_campaign(ctx, a)
      [] name = "schedule_campaign" -> schedule_campaign(ctx, a)
      [] name = "update_campaign_schedule" -> update_campaign_schedule(ctx, a)
      [] name = "delete_scheduled_campaign" -> delete_scheduled_campaign(ctx, a)
      [] name = "trigger_canvas" -> trigger_canvas(ctx, a)
      [] name = "schedule_canvas" -> schedule_canvas(ctx, a)
      [] name = "update_canvas_schedule" -> update_canvas_schedule(ctx, a)
      [] name = "delete_scheduled_canvas" -> delete_scheduled_canvas(ctx, a)
      [] name = "create_catalog_items" -> create_catalog_items(ctx, a)
      [] name = "update_catalog_items" -> update_catalog_items(ctx, a)
      [] name = "delete_catalog_items" -> delete_catalog_items(ctx, a)
      [] name = "create_catalog" -> create_catalog(ctx, a)
      [] name = "delete_catalog" -> delete_catalog(ctx, a)
      [] name = "create_content_block" -> create_content_block(ctx, a)
      [] name = "update_content_block" -> update_content_block(ctx, a)
      [] name = "track_user_data" -> track_user_data(ctx, a)
      [] name = "update_user_attributes" -> update_user_attributes(ctx, a)
      [] name = "track_event" -> track_event(ctx, a)
      [] name = "track_purchase" -> track_purchase(ctx, a)
      [] name = "delete_user" -> delete_user(ctx, a)
      [] name = "identify_users" -> identify_users(ctx, a)

----------------------------------------------------------------------------
(* The dispatcher (server.py) *)

\* models/errors.py
function_not_found_error_unsliced(function_name, available_functions) ==
    [error |-> "Function not found",
     function |-> function_name,
     available_functions |-> available_functions,
     total_available |-> Len(available_functions)]
function_not_found_error(function_name, available_functions) ==
    [error |-> "Function not found",
     function |-> function_name,
     available_functions |->
        SubSeq(available_functions, 1,
               IF Len(available_functions) < 10 THEN Len(available_functions) ELSE 10),
     total_available |-> Len(available_functions)]

invalid_params_error(message, operation) ==
    [error |-> "Invalid parameters", operation |-> operation, message |-> message]

internal_error(message, operation) ==
    [error |-> "Internal error", operation |-> operation, message |-> message]

\* json.loads on the text of a parameters string: the text is a JSON
\* object, another JSON value, or not JSON
json_loads(text) ==
    CASE text.json = "invalid" -> Raise("JSONDecodeError", "Expecting value")
      [] text.json = "array" -> Returned([type |-> "list"])
      [] text.json = "number" -> Returned([type |-> "int"])
      [] text.json = "null" -> Returned([type |-> "NoneType"])
      [] text.json = "object" -> Returned([type |-> "dict", value |-> text.value])

\* server.py:81-103: the keyword arguments, or the error returned instead
ParseParameters_any_json(parameters) ==
    IF parameters.type = "NoneType" THEN [ok |-> TRUE, value |-> <<>>]
    ELSE IF parameters.type = "str"
    THEN LET loaded == json_loads(parameters.text)
         IN  IF loaded.kind = "raise"
             THEN [ok |-> FALSE, error |->
                    invalid_params_error("Invalid JSON in parameters string", "call_function")]
             ELSE IF loaded.value.type # "dict"
             THEN [ok |-> TRUE, value |-> <<>>]
             ELSE [ok |-> TRUE, value |-> loaded.value.value]
    ELSE [ok |-> TRUE, value |-> IF parameters.type = "dict" THEN parameters.value ELSE <<>>]
ParseParameters(parameters) ==
    IF parameters.type = "NoneType" THEN [ok |-> TRUE, value |-> <<>>]
    ELSE IF parameters.type = "str"
    THEN LET loaded == json_loads(parameters.text)
         IN  IF loaded.kind = "raise"
             THEN [ok |-> FALSE, error |->
                    invalid_params_error("Invalid JSON in parameters string", "call_function")]
             ELSE IF loaded.value.type # "dict"
             THEN [ok |-> FALSE, error |->
                    invalid_params_error(
                        "Parameters string must parse to a JSON object/dictionary",
                        "call_function")]
             ELSE [ok |-> TRUE, value |-> loaded.value.value]
    ELSE IF parameters.type = "dict" THEN [ok |-> TRUE, value |-> parameters.value]
    ELSE [ok |-> FALSE, error |->
            invalid_params_error(
                <<"Parameters must be a dictionary or JSON string, got", parameters.type>>,
                "call_function")]

\* Python's binding of `implementation(ctx, **parsed_parameters)`: every
\* required parameter is given and every name given is a parameter
Binds(sig, kwargs) ==
    /\ sig.required \subseteq DOMAIN kwargs
    /\ DOMAIN kwargs \subseteq sig.required \cup DOMAIN sig.optional

Bound(sig, kwargs) ==
    [name \in sig.required \cup DOMAIN sig.optional |->
        IF name \in DOMAIN kwargs THEN kwargs[name] ELSE sig.optional[name]]

\* the call has ended with a value returned to the caller
\* (called: the call of the implementation at server.py:106 was made with
\* kwargs; invoked: its arguments were bound and its body ran)
Done(function_name, parameters, called, kwargs, invoked, caught, result) ==
    [kind |-> "returned", function_name |-> function_name, parameters |-> parameters,
     called |-> called, kwargs |-> kwargs, invoked |-> invoked, request |-> <<>>,
     caught |-> caught, result |-> result]

\* the exception classes raised on the paths of a call; all derive from
\* Exception
Exceptions ==
    {"TypeError", "ValueError", "AttributeError", "IndexError", "JSONDecodeError",
     "HTTPStatusError", "ConnectError", "NameError", "SyntaxError", "ImportError"}

\* `except Exception:` (server.py:121)
except_Exception_only_ValueError(exc) == exc = "ValueError"
except_Exception(exc) == exc \in Exceptions

\* an exception reaches the end of the try block of call_function: it is
\* caught and an internal error returned, or it leaves call_function
Failed(function_name, parameters, kwargs, invoked, exc) ==
    IF except_Exception(exc)
    THEN Done(function_name, parameters, TRUE, kwargs, invoked, exc,
              internal_error(<<"Error calling function", function_name>>, "call_function"))
    ELSE [kind |-> "raised", function_name |-> function_name, parameters |-> parameters,
          called |-> TRUE, kwargs |-> kwargs, invoked |-> invoked, request |-> <<>>,
          caught |-> "none", result |-> <<>>, exc |-> exc]

\* call_function, from its start to its return or to the HTTP request it
\* awaits (server.py:73-122)
call_function(ctx, function_name, parameters) ==
    IF function_name \notin DOMAIN FUNCTION_REGISTRY
    THEN Done(function_name, parameters, FALSE, <<>>, FALSE, "none",
              function_not_found_error(function_name, AVAILABLE_FUNCTION_NAMES))
    ELSE
    LET func_info == FUNCTION_REGISTRY[function_name]
        parsed == ParseParameters(parameters)
    IN  IF ~parsed.ok
        THEN Done(function_name, parameters, FALSE, <<>>, FALSE, "none", parsed.error)
        ELSE IF ~Binds(Signature(Deref(func_info.implementation)), parsed.value)
        THEN Failed(function_name, parameters, parsed.value, FALSE, "TypeError")
        ELSE
        \* a coroutine of a tool's name that another module adds makes one request
        LET r == IF func_info.implementation[1] = ModuleNames[ModuleOf(function_name)]
                 THEN implementation(function_name, ctx,
                            Bound(Signature(Deref(func_info.implementation)), parsed.value))
                 ELSE ApiCall(ctx, "added", "POST", function_name)
        IN  CASE r.kind = "raise" ->
                    Failed(function_name, parameters, parsed.value, TRUE, r.exc)
              [] r.kind = "return" ->
                    Done(function_name, parameters, TRUE, parsed.value, TRUE, "none", r.value)
              [] r.kind = "request" ->
                    [kind |-> "http", function_name |-> function_name,
                     parameters |-> parameters, called |-> TRUE, kwargs |-> parsed.value,
                     invoked |-> TRUE,
                     request |-> <<r>>, caught |-> "none", result |-> <<>>]

\* what the HTTP request can end with: a 2xx response with a JSON body, a
\* 2xx response whose body is not JSON, a 4xx/5xx response (raise_for_status),
\* or a transport failure
Responses == {"ok", "not_json", "HTTPStatusError", "ConnectError"}

\* the rest of the call once the response is there: make_request returns or
\* raises (http.py:55-77), handle_response parses (http.py:96-124), and
\* call_function returns the result or an internal error (server.py:106-122)
resume_call_function(c, response) ==
    LET ended(caught, result) == [c EXCEPT !.kind = "returned", !.caught = caught,
                                           !.result = result]
    IN  CASE response = "ok" -> ended("none", [data |-> "response.json()"])
          [] response = "not_json" ->
                ended("none", [error |-> "Failed to decode response",
                               operation |-> c.request[1].operation,
                               raw_response |-> "response.text"])
          [] OTHER ->
                [Failed(c.function_name, c.parameters, c.kwargs, TRUE, response)
                    EXCEPT !.request = c.request]

----------------------------------------------------------------------------
(* SpecRace: concurrent invocations of one rate-limited operation.  Each   *)
(* task is a coroutine run by the event loop: it runs from where it was    *)
(* started or resumed to its next suspension point.                        *)

\* Whether check_limit can be suspended between counting and recording:
\* it is a plain `def` with no await in it (safety.py:49-79), and
\* rate_limit.wrapper calls it without awaiting (safety.py:203-205).
SuspendsInCheckLimit_yes == TRUE
SuspendsInCheckLimit == FALSE

\* the operation is decorated with @rate_limit(L, W), L >= 1 and W >= 1
RaceDecorations ==
    {d \in Decorations : d.limit >= 1 /\ d.window >= 1 /\ Len(d.stack) = 1}
RaceContexts == {c \in Contexts : c.braze}

\* A task starts an invocation and runs to its first suspension point, the
\* HTTP request of the wrapped operation, or to the end of the call.
Start(t, ctx) ==
    LET kwargs == MakeKwargs("absent", "absent")
        r == Invoke(decorated, OperationName, ctx, kwargs, requests, now)
        admitted == r.rl # <<>> /\ r.rl[1].allowed
    IN  /\ pc[t] = Idle
        /\ r.rl # <<>> => TotalCalls < MaxCalls
        /\ IF SuspendsInCheckLimit /\ admitted
           THEN /\ requests' = [requests EXCEPT
                        ![OperationName] = CleanOld(@, now - Window)]
                /\ calls' = calls
                /\ pc' = [pc EXCEPT ![t] = [at |-> "check_limit", since |-> now]]
           ELSE /\ requests' = r.requests
                /\ calls' = [calls EXCEPT ![OperationName] = @ \o r.rl]
                /\ pc' = [pc EXCEPT ![t] =
                        IF r.kind = "invoked" THEN [at |-> "http", since |-> now] ELSE Idle]
        /\ UNCHANGED <<extraction, lifetime, startup, config, now, limit, window_seconds, decorated, last, dispatcher>>

\* The event loop resumes a suspended task: the HTTP response (or failure)
\* arrives and the call ends.  A task suspended inside check_limit records
\* its timestamp and goes on to the wrapped operation.
Resume(t) ==
    /\ pc[t] # Idle
    /\ IF pc[t].at = "check_limit"
       THEN /\ requests' = [requests EXCEPT ![OperationName] = Record(@, pc[t].since)]
            /\ calls' = [calls EXCEPT ![OperationName] = Append(@,
                    [t |-> pc[t].since, raised |-> "none", allowed |-> TRUE, kind |-> "OK",
                     count |-> Len(requests[OperationName]) + 1, limit |-> limit,
                     wait |-> 0, wait_ticks |-> 0, before |-> requests,
                     after |-> requests'])]
            /\ pc' = [pc EXCEPT ![t] = [at |-> "http", since |-> now]]
       ELSE /\ pc' = [pc EXCEPT ![t] = Idle]
            /\ UNCHANGED <<requests, calls>>
    /\ UNCHANGED <<extraction, lifetime, startup, config, now, limit, window_seconds, decorated, last, dispatcher>>


----------------------------------------------------------------------------
(* The registry builder (registry_builder.py) *)

\* _safe_serialize_default: json.dumps accepts every default the tools
\* declare (None, False, a string, an int, an empty dict), and the default is
\* returned as it is
_safe_serialize_default(default_value) == default_value

\* _extract_parameter_info, without its type and description fields: the
\* defaults the model has compare and serialize without an exception, so the
\* try block runs to its return
_extract_parameter_info_all_required(param_name, param) ==
    [required |-> TRUE]

_extract_parameter_info(param_name, param) ==
    IF param.default # empty
    THEN [required |-> param.default = empty,
          default |-> _safe_serialize_default(param.default)]
    ELSE [required |-> param.default = empty]

\* _extract_description_from_docstring, the summary taken as a whole
_extract_description_from_docstring(docstring) ==
    IF docstring = <<>> THEN <<"No description available">> ELSE docstring

\* f"... {func.__name__}": an object with no __name__ raises AttributeError
HasName(fn) == fn.name # <<>>

\* _get_type_hints_safely: NameError, AttributeError and TypeError are caught,
\* and the handler formats func.__name__ into its warning
_get_type_hints_safely(fn) ==
    CASE fn.get_type_hints = "ok" -> Returned("hints")
      [] fn.get_type_hints \in {"NameError", "AttributeError", "TypeError"} ->
            IF HasName(fn) THEN Returned("no hints")
            ELSE Raise("AttributeError", "__name__")
      [] OTHER -> Raise(fn.get_type_hints, "get_type_hints")

\* The annotations of a parameter, as typing.get_type_hints gives them:
\* NoneType, a class, a generic alias with its origin (list[int], Tuple[str],
\* dict[str, Any], set[int]), a Union or X | Y of such alternatives (Python
\* flattens nested unions and drops repeated alternatives), or an object
\* that is no type and cannot be hashed (a dict literal)
NoneType == [kind |-> "NoneType", name |-> "NoneType", args |-> <<>>]
Class(name) == [kind |-> "class", name |-> name, args |-> <<>>]
GenericAlias(origin) == [kind |-> "generic", name |-> origin, args |-> <<>>]
Unhashable == [kind |-> "value", name |-> "{}", args |-> <<>>]

Alternatives ==
    {NoneType, Unhashable}
    \cup {Class(n) : n \in {"str", "int", "bool", "float", "list", "dict", "object",
                           "tuple", "Decimal"}}
    \cup {GenericAlias(o) : o \in {"list", "tuple", "dict", "set"}}

Annotations ==
    Alternatives
    \cup {[kind |-> "Union", name |-> "Union", args |-> args] :
            args \in {a \in UNION {[1..n -> Alternatives \ {Unhashable}] :
                                        n \in 2..MaxAlternatives} :
                        \A i, j \in DOMAIN a : i # j => a[i] # a[j]}}

\* no parameter is under extraction
NoParam == [annotation |-> <<>>, get_type_hints |-> "not called"]

BASIC_TYPE_MAPPING_bool_as_int ==
    [str |-> "string", int |-> "integer", bool |-> "integer", float |-> "number",
     list |-> "array", dict |-> "object", object |-> "object"]

BASIC_TYPE_MAPPING ==
    [str |-> "string", int |-> "integer", bool |-> "boolean", float |-> "number",
     list |-> "array", dict |-> "object", object |-> "object"]

\* _python_type_to_json_type: hashing an unhashable object in the lookup of
\* line 96 raises TypeError, which the handler turns into "string"
RECURSIVE _python_type_to_json_type(_)
_python_type_to_json_type(python_type) ==
    LET get(key) == IF key \in DOMAIN BASIC_TYPE_MAPPING
                    THEN BASIC_TYPE_MAPPING[key] ELSE "object"
    IN  CASE python_type.kind = "NoneType" -> "null"
          [] python_type.kind = "Union" ->
                LET non_none_types == SelectSeq(python_type.args, LAMBDA t : t # NoneType)
                IN  IF non_none_types # <<>>
                    THEN _python_type_to_json_type(non_none_types[1])
                    ELSE "null"
          [] python_type.kind = "generic" ->
                IF python_type.name \in {"list", "tuple"} THEN "array"
                ELSE IF python_type.name = "dict" THEN "object"
                ELSE get(python_type.name)
          [] python_type.kind = "class" -> get(python_type.name)
          [] python_type.kind = "value" -> "string"

\* the type field of _extract_parameter_info (registry_builder.py:280-283)
\* for a parameter of a function that has a __name__: type_hints is {} when
\* get_type_hints raised (registry_builder.py:343-345), and
\* type_hints.get(param_name, str) is str for a name it does not hold
ExtractParameterType ==
    /\ inspected # NoParam
    /\ param_info = <<>>
    /\ LET type_hints == IF inspected.get_type_hints = "ok" THEN inspected.annotation ELSE <<>>
           param_type == IF type_hints # <<>> THEN type_hints[1] ELSE Class("str")
       IN  param_info' = <<[type |-> _python_type_to_json_type(param_type)]>>
    /\ UNCHANGED <<inspected, lifetime, startup, config, limiter, pipeline, dispatcher>>

\* _create_fallback_metadata
_create_fallback_metadata(fn, error) ==
    [implementation |-> fn.id,
     description |-> <<"Function", fn.name[1], "(metadata extraction failed)">>,
     parameters |-> <<>>,
     error |-> error]

\* the try block of extract_function_metadata (registry_builder.py:310-332)
ExtractTry(fn) ==
    IF fn.signature # "ok" THEN Raise(fn.signature, "signature")
    ELSE
    LET type_hints == _get_type_hints_safely(fn)
    IN  IF type_hints.kind = "raise" THEN type_hints
        ELSE Returned([implementation |-> fn.id,
                       description |-> _extract_description_from_docstring(fn.doc),
                       parameters |-> [param_name \in DOMAIN fn.parameters |->
                            _extract_parameter_info(param_name,
                                                    fn.parameters[param_name])]])

\* extract_function_metadata: the handler logs func.__name__ before it
\* builds the fallback record (registry_builder.py:334-336)
extract_function_metadata(fn) ==
    LET r == ExtractTry(fn)
    IN  IF r.kind = "raise" /\ except_Exception(r.exc)
        THEN IF HasName(fn) THEN Returned(_create_fallback_metadata(fn, r.exc))
             ELSE Raise("AttributeError", "__name__")
        ELSE r

\* _is_valid_function
_is_valid_function(obj, name) ==
    /\ obj.iscoroutinefunction
    /\ name \notin {"_build_payload"}     \* not name.startswith("_")
    /\ Len(obj.module) >= 2
    /\ obj.module[1] = "braze_mcp_write"
    \* "braze_mcp_write.tools" is a prefix of the dotted name
    /\ obj.module[2] \in {"tools", "tools_common"}

\* _discover_mcp_tool_modules over the tools package: a module whose import
\* raises is logged and left out, and so is one that does not opt in
Discovered(module) == module.import = "ok" /\ module.register_mcp_tools

RECURSIVE UntilImportFails(_)
UntilImportFails(modules) ==
    IF modules = <<>> \/ Head(modules).import # "ok" THEN <<>>
    ELSE <<Head(modules)>> \o UntilImportFails(Tail(modules))

_discover_mcp_tool_modules_stop_at_failure ==
    SelectSeq(UntilImportFails(tools), Discovered)

_discover_mcp_tool_modules == SelectSeq(tools, Discovered)

\* inspect.getmembers(module): the names of the members, sorted
getmembers(module) ==
    LET sorted ==
        <<"_build_payload", "create_catalog", "create_catalog_items",
          "create_content_block", "delete_catalog", "delete_catalog_items",
          "delete_scheduled_campaign", "delete_scheduled_canvas", "delete_user",
          "identify_users", "make_request", "schedule_campaign", "schedule_canvas",
          "send_campaign", "track_event", "track_purchase", "track_user_data",
          "trigger_canvas", "update_campaign_schedule", "update_canvas_schedule",
          "update_catalog_items", "update_content_block", "update_user_attributes">>
    IN  SelectSeq(sorted, LAMBDA n : n \in DOMAIN module.members)

\* the body of the loop over the members (registry_builder.py:402-408): the
\* names of a module that get an entry; an exception of the extractor is
\* logged and the member left out
Registered(module) ==
    {name \in DOMAIN module.members :
        /\ _is_valid_function(module.members[name], name)
        /\ extract_function_metadata(module.members[name]).kind = "return"}

\* build_function_registry: the entry of a name is the one the last module
\* holding it gave
build_function_registry ==
    LET modules == _discover_mcp_tool_modules
        names == UNION {Registered(modules[i]) : i \in DOMAIN modules}
        from(name) == CHOOSE i \in DOMAIN modules :
                        /\ name \in Registered(modules[i])
                        /\ \A j \in DOMAIN modules : name \in Registered(modules[j]) => j <= i
    IN  [name \in names |-> extract_function_metadata(modules[from(name)].members[name]).value]

\* list(registry.keys()): the names in the order of their first insertion
RECURSIVE keys_from(_, _)
keys_from(modules, seen) ==
    IF modules = <<>> THEN <<>>
    ELSE LET new == SelectSeq(getmembers(Head(modules)),
                        LAMBDA n : n \in Registered(Head(modules)) /\ n \notin seen)
         IN  new \o keys_from(Tail(modules), seen \cup Registered(Head(modules)))

keys == keys_from(_discover_mcp_tool_modules, {})

\* list_functions (server.py:32-55), without the returns field
list_functions ==
    [available_functions |->
        [func_name \in DOMAIN FUNCTION_REGISTRY |->
            [description |-> FUNCTION_REGISTRY[func_name].description,
             parameters |-> FUNCTION_REGISTRY[func_name].parameters]],
     total_functions |-> Cardinality(DOMAIN FUNCTION_REGISTRY)]

----------------------------------------------------------------------------
(* Calls through the dispatcher *)

\* the optional parameters whose value a tool inspects
VariedNames ==
    {"recipients", "segment_id", "broadcast", "attributes", "events", "purchases",
     "external_id", "user_alias", "braze_id", "name", "content", "description", "tags",
     "dry_run", "confirm"}

\* the values given for a parameter: a flag is True or False, a field tested
\* with `is not None` is empty or not, any other is a non-empty value
InputValues(name) ==
    CASE name \in {"dry_run", "confirm", "broadcast"} -> {"True", "False"}
      [] name \in {"name", "content", "description", "tags"} -> {"", "x"}
      [] OTHER -> {"x"}

\* the keyword arguments a caller passes to a tool: the required ones with
\* some of the optional ones, or one required parameter short, or with a
\* name the tool does not have
KwargsFor(function_name) ==
    IF function_name \notin DOMAIN FUNCTION_REGISTRY
    THEN {[n \in {"id"} |-> "x"]}
    ELSE
    LET sig == Signature(Deref(FUNCTION_REGISTRY[function_name].implementation))
        varied == DOMAIN sig.optional \cap VariedNames
        values == UNION {InputValues(n) : n \in varied}
    IN  UNION {{[n \in sig.required \cup given |->
                    IF n \in sig.required /\ n \notin given THEN "x" ELSE f[n]] :
                f \in {g \in [given -> values] : \A n \in given : g[n] \in InputValues(n)}} :
               given \in SUBSET varied}
        \cup {[n \in sig.required \ {m} |-> "x"] : m \in sig.required}
        \cup {[n \in sig.required \cup {"unexpected"} |-> "x"]}

\* the `parameters` argument of call_function: None, a dict, a string
\* holding JSON or not, or a value of another type
ParametersFor(function_name) ==
    {[type |-> "NoneType"], [type |-> "list"], [type |-> "int"],
     [type |-> "str", text |-> [json |-> "invalid"]],
     [type |-> "str", text |-> [json |-> "array"]],
     [type |-> "str", text |-> [json |-> "number"]],
     [type |-> "str", text |-> [json |-> "null"]]}
    \cup {[type |-> "dict", value |-> k] : k \in KwargsFor(function_name)}
    \cup {[type |-> "str", text |-> [json |-> "object", value |-> k]] :
            k \in KwargsFor(function_name)}

\* a name no tool is registered under
UnknownFunction == "get_campaigns"

\* an MCP client calls call_function once the server runs (main.py:21); the
\* call runs until it returns or awaits the HTTP request
CallFunction ==
    /\ phase = "serving"
    /\ call = NoCall
    /\ \E ctx \in Contexts, function_name \in DOMAIN FUNCTION_REGISTRY \cup {UnknownFunction} :
        \E parameters \in ParametersFor(function_name) :
            call' = call_function(ctx, function_name, parameters)
    /\ UNCHANGED <<extraction, lifetime, startup, config, limiter, pipeline, FUNCTION_REGISTRY,
                   AVAILABLE_FUNCTION_NAMES>>

\* the HTTP request ends and the call runs to its return
Respond(response) ==
    /\ call.kind = "http"
    /\ call' = resume_call_function(call, response)
    /\ UNCHANGED <<extraction, lifetime, startup, config, limiter, pipeline, FUNCTION_REGISTRY, AVAILABLE_FUNCTION_NAMES>>

\* the client has the outcome of the call
Deliver ==
    /\ call.kind \in {"returned", "raised"}
    /\ call' = NoCall
    /\ UNCHANGED <<extraction, lifetime, startup, config, limiter, pipeline, FUNCTION_REGISTRY, AVAILABLE_FUNCTION_NAMES>>

\* A tool decorated the way safety.py documents (safety.py:276-281),
\*     @safe_write_operation(rate_limit_count=..., rate_limit_window=...)
\*     async def send_campaign(ctx, campaign_id, ...)
\* with a rate limit, as the registered implementation
DispatchDecorations ==
    {d \in Decorations : Len(d.stack) >= 3 /\ d.limit >= 1 /\ d.window >= 1}

\* call_function dispatches to the decorated tool: the wrappers run, and
\* what they raise or return reaches the try block of call_function
\* (server.py:106-122)
DispatchDecorated(ctx, confirm, dry_run) ==
    LET kwargs == MakeKwargs(confirm, dry_run)
        parameters == [type |-> "dict", value |-> kwargs]
        r == Invoke(decorated, OperationName, ctx, kwargs, requests, now)
    IN  /\ call = NoCall
        /\ r.rl # <<>> => TotalCalls < MaxCalls
        /\ requests' = r.requests
        /\ calls' = [calls EXCEPT ![OperationName] = @ \o r.rl]
        /\ last' = LastOf(r, ctx, kwargs)
        /\ call' = IF r.kind = "raise"
                   THEN Failed(OperationName, parameters, kwargs, TRUE, r.exc)
                   ELSE Done(OperationName, parameters, TRUE, kwargs, TRUE, "none", r.value)
        /\ UNCHANGED <<extraction, lifetime, startup, config, now, limit, window_seconds, decorated, pc,
                       FUNCTION_REGISTRY, AVAILABLE_FUNCTION_NAMES>>

\* the client has the outcome of the call to the decorated tool
DeliverDecorated ==
    /\ call # NoCall
    /\ call' = NoCall
    /\ last' = NoLast
    /\ UNCHANGED <<extraction, lifetime, startup, config, limiter, decorated, pc, FUNCTION_REGISTRY,
                   AVAILABLE_FUNCTION_NAMES>>

----------------------------------------------------------------------------
(* The start of the process: main.py imports server.py, which imports      *)
(* registry_builder.py; then main() calls mcp.run()                        *)

NoListing == [kind |-> "none"]

\* the `parameters` argument left out, or a dict of the required parameters
PlainParametersFor(function_name) ==
    LET required ==
            IF function_name \notin DOMAIN FUNCTION_REGISTRY THEN {"id"}
            ELSE Signature(Deref(FUNCTION_REGISTRY[function_name].implementation)).required
    IN  {[type |-> "NoneType"], [type |-> "dict", value |-> [n \in required |-> "x"]]}

\* an MCP client calls call_function that way
CallPlainly ==
    /\ phase = "serving"
    /\ call = NoCall
    /\ \E function_name \in DOMAIN FUNCTION_REGISTRY \cup {UnknownFunction} :
        \E parameters \in PlainParametersFor(function_name) :
            call' = call_function(lifespan.context[1], function_name, parameters)
    /\ UNCHANGED <<extraction, lifetime, startup, config, limiter, pipeline, FUNCTION_REGISTRY,
                   AVAILABLE_FUNCTION_NAMES>>

\* registry_builder.py:419, run by the import at server.py:19
ImportRegistryBuilder ==
    /\ phase = "start"
    /\ FUNCTION_REGISTRY' = build_function_registry
    /\ builds' = builds + 1
    /\ phase' = "registry_builder"
    /\ UNCHANGED <<extraction, lifetime, config, limiter, pipeline, AVAILABLE_FUNCTION_NAMES, call, installed, listing>>

\* server.py:29, and the registration of list_functions and call_function
\* with the FastMCP instance (server.py:32, 58)
ImportServer ==
    /\ phase = "registry_builder"
    /\ AVAILABLE_FUNCTION_NAMES' = keys
    /\ phase' = "server"
    /\ UNCHANGED <<extraction, lifetime, config, limiter, pipeline, FUNCTION_REGISTRY, call, installed, builds, listing>>

\* the environments the process starts in: BRAZE_API_KEY and BRAZE_BASE_URL
\* unset, empty or set, the address with and without trailing slashes
Environs ==
    LET settings(name, values) == {<<>>} \cup {[n \in {name} |-> v] : v \in values}
    IN  {a @@ b : a \in settings("BRAZE_API_KEY", {<<>>, <<"k">>}),
                  b \in settings("BRAZE_BASE_URL",
                                 {<<>>, Url_demo_east, Url_demo_east \o <<"/">>,
                                  Url_poc \o <<"/", "/">>})}

NotEntered == [at |-> "before", clients |-> <<>>, context |-> <<>>]

\* braze_lifespan up to its yield (context.py:69-108): `not os.getenv(name)`
\* holds for an unset and for an empty variable; the context it yields is the
\* request context of every invocation, api_key left out
braze_lifespan_client_first(env) ==
    LET unset(name) == name \notin DOMAIN env \/ env[name] = <<>>
        rstrip_slash(u) ==
            SubSeq(u, 1, CHOOSE n \in 0..Len(u) :
                            /\ n = 0 \/ u[n] # "/"
                            /\ \A i \in (n + 1)..Len(u) : u[i] = "/")
    IN  IF unset("BRAZE_API_KEY") \/ unset("BRAZE_BASE_URL")
        THEN [at |-> "raised", clients |-> <<"open">>, context |-> <<>>]
        ELSE [at |-> "yielded", clients |-> <<"open">>,
              context |-> <<[braze |-> TRUE,
                             base_url |-> rstrip_slash(env["BRAZE_BASE_URL"]),
                             http_client |-> Len(<<"open">>)]>>]

braze_lifespan(env) ==
    LET unset(name) == name \notin DOMAIN env \/ env[name] = <<>>
        rstrip_slash(u) ==
            SubSeq(u, 1, CHOOSE n \in 0..Len(u) :
                            /\ n = 0 \/ u[n] # "/"
                            /\ \A i \in (n + 1)..Len(u) : u[i] = "/")
    IN  IF unset("BRAZE_API_KEY") \/ unset("BRAZE_BASE_URL")
        THEN [at |-> "raised", clients |-> <<>>, context |-> <<>>]
        ELSE [at |-> "yielded", clients |-> <<"open">>,
              context |-> <<[braze |-> TRUE,
                             base_url |-> rstrip_slash(env["BRAZE_BASE_URL"]),
                             http_client |-> Len(<<"open">>)]>>]

\* the server stops, by a return or by an exception thrown into the
\* lifespan: the finally block closes the client (context.py:109-111)
Shutdown(how) ==
    /\ lifespan.at = "yielded"
    /\ lifespan' = [at |-> how,
                    clients |-> [i \in DOMAIN lifespan.clients |-> "closed"],
                    context |-> <<>>]
    /\ phase' = "stopped"
    /\ call' = NoCall
    /\ listing' = NoListing
    /\ UNCHANGED <<config, limiter, pipeline, FUNCTION_REGISTRY, AVAILABLE_FUNCTION_NAMES,
                   installed, builds, environ, extraction>>

\* main() runs after `from braze_mcp_write.server import mcp` has ended
\* (main.py:7, 13-21)
mcp_run_at_any_time(p) == p # "serving"

mcp_run_after_import(p) == p = "server"

\* mcp.run(): the server enters braze_lifespan (server.py:25); from its
\* yield on the clients' requests are dispatched, and when it raises the
\* process ends (main.py:25-27)
Run ==
    /\ mcp_run_after_import(phase)
    /\ lifespan' = braze_lifespan(environ)
    /\ phase' = IF lifespan'.at = "yielded" THEN "serving" ELSE "failed"
    /\ UNCHANGED <<config, limiter, pipeline, dispatcher, installed, builds, listing, environ, extraction>>

\* an MCP client calls list_functions, which has no await
ListFunctions ==
    /\ phase = "serving"
    /\ call = NoCall
    /\ listing = NoListing
    /\ listing' = [kind |-> "listed", result |-> list_functions]
    /\ UNCHANGED <<extraction, lifetime, config, limiter, pipeline, dispatcher, installed, phase, builds>>

\* the client has the result of list_functions
DeliverListing ==
    /\ listing # NoListing
    /\ listing' = NoListing
    /\ UNCHANGED <<extraction, lifetime, config, limiter, pipeline, dispatcher, installed, phase, builds>>

----------------------------------------------------------------------------
(* Specifications *)

\* the environment the other specifications run in
Environ == [n \in {"BRAZE_API_KEY", "BRAZE_BASE_URL"} |->
                IF n = "BRAZE_API_KEY" THEN <<"k">> ELSE Url_demo_east]

\* the module state once server.py is imported (server.py:19-29) and
\* mcp.run() serves (main.py:21)
Imported ==
    /\ installed = Repository
    /\ environ = Environ
    /\ lifespan = braze_lifespan(Environ)
    /\ inspected = NoParam
    /\ param_info = <<>>
    /\ phase = "serving"
    /\ builds = 1
    /\ listing = NoListing
    /\ FUNCTION_REGISTRY = build_function_registry
    /\ AVAILABLE_FUNCTION_NAMES = RegistrationOrder
    /\ call = NoCall

\* Spec: calls through the dispatcher to the registered tools, which carry
\* no decorator (users_write.py:24, 217)
Init ==
    /\ Imported
    /\ WRITE_ENABLED \in BOOLEAN
    /\ ALLOW_PRODUCTION \in BOOLEAN
    /\ DRY_RUN_DEFAULT \in BOOLEAN
    /\ ALLOWED_WORKSPACE_PATTERNS = split(DefaultWorkspaces)
    /\ now = 0
    /\ requests = RateLimiterInit
    /\ limit = 0
    /\ window_seconds = 0
    /\ calls = [o \in OpNames |-> <<>>]
    /\ decorated = <<>>
    /\ pc = [t \in Tasks |-> Idle]
    /\ last = NoLast

Next ==
    \/ CallFunction
    \/ \E response \in Responses : Respond(response)
    \/ Deliver

Spec == Init /\ [][Next]_vars

\* SpecRL: the rate limiter alone
InitRL ==
    /\ Imported
    /\ WRITE_ENABLED = FALSE
    /\ ALLOW_PRODUCTION = FALSE
    /\ DRY_RUN_DEFAULT = FALSE
    /\ ALLOWED_WORKSPACE_PATTERNS = split(DefaultWorkspaces)
    /\ now = 0
    /\ requests = RateLimiterInit
    /\ limit \in 0..MaxLimit
    /\ window_seconds \in 0..MaxWindow
    /\ calls = [o \in OpNames |-> <<>>]
    /\ decorated = <<>>
    /\ pc = [t \in Tasks |-> Idle]
    /\ last = NoLast

NextRL ==
    \/ \E op \in OpNames : CheckLimit(op)
    \/ Tick

SpecRL == InitRL /\ [][NextRL]_vars

\* SpecGate: one operation under a stack of decorators, called in sequence
InitGate ==
    /\ Imported
    /\ WRITE_ENABLED \in BOOLEAN
    /\ ALLOW_PRODUCTION \in BOOLEAN
    /\ DRY_RUN_DEFAULT \in BOOLEAN
    /\ \E setting \in WorkspaceSettings : ALLOWED_WORKSPACE_PATTERNS = split(setting)
    /\ now = 0
    /\ requests = RateLimiterInit
    /\ \E d \in Decorations :
        /\ decorated = d.stack
        /\ limit = d.limit
        /\ window_seconds = d.window
    /\ calls = [o \in OpNames |-> <<>>]
    /\ pc = [t \in Tasks |-> Idle]
    /\ last = NoLast

NextGate ==
    \/ \E ctx \in Contexts, confirm \in ConfirmValues, dry_run \in DryRunValues :
            InvokeDecorated(ctx, confirm, dry_run)
    \/ Return

SpecGate == InitGate /\ [][NextGate]_vars

\* SpecDispatchGate: calls through the dispatcher to a tool decorated with
\* safe_write_operation
InitDispatchGate ==
    /\ Imported
    /\ WRITE_ENABLED \in BOOLEAN
    /\ ALLOW_PRODUCTION \in BOOLEAN
    /\ DRY_RUN_DEFAULT \in BOOLEAN
    /\ ALLOWED_WORKSPACE_PATTERNS = split(DefaultWorkspaces)
    /\ now = 0
    /\ requests = RateLimiterInit
    /\ \E d \in DispatchDecorations :
        /\ decorated = d.stack
        /\ limit = d.limit
        /\ window_seconds = d.window
    /\ calls = [o \in OpNames |-> <<>>]
    /\ pc = [t \in Tasks |-> Idle]
    /\ last = NoLast

NextDispatchGate ==
    \/ \E ctx \in Contexts, confirm \in ConfirmValues, dry_run \in DryRunValues :
            DispatchDecorated(ctx, confirm, dry_run)
    \/ DeliverDecorated

SpecDispatchGate == InitDispatchGate /\ [][NextDispatchGate]_vars

\* SpecRace: concurrent invocations of one rate-limited operation
InitRace ==
    /\ Imported
    /\ WRITE_ENABLED = TRUE
    /\ ALLOW_PRODUCTION = FALSE
    /\ DRY_RUN_DEFAULT = FALSE
    /\ ALLOWED_WORKSPACE_PATTERNS = split(DefaultWorkspaces)
    /\ now = 0
    /\ requests = RateLimiterInit
    /\ \E d \in RaceDecorations :
        /\ decorated = d.stack
        /\ limit = d.limit
        /\ window_seconds = d.window
    /\ calls = [o \in OpNames |-> <<>>]
    /\ pc = [t \in Tasks |-> Idle]
    /\ last = NoLast

NextRace ==
    \/ \E t \in Tasks, ctx \in RaceContexts : Start(t, ctx)
    \/ \E t \in Tasks : Resume(t)
    \/ Tick

SpecRace == InitRace /\ [][NextRace]_vars

\* SpecServer: the start of the process on a tools package, then the
\* clients' list_functions and call_function requests
InitServer ==
    /\ WRITE_ENABLED = TRUE
    /\ ALLOW_PRODUCTION = FALSE
    /\ DRY_RUN_DEFAULT = FALSE
    /\ ALLOWED_WORKSPACE_PATTERNS = split(DefaultWorkspaces)
    /\ now = 0
    /\ requests = RateLimiterInit
    /\ limit = 0
    /\ window_seconds = 0
    /\ calls = [o \in OpNames |-> <<>>]
    /\ decorated = <<>>
    /\ pc = [t \in Tasks |-> Idle]
    /\ last = NoLast
    /\ installed \in Installs
    /\ environ = Environ
    /\ lifespan = NotEntered
    /\ inspected = NoParam
    /\ param_info = <<>>
    /\ phase = "start"
    /\ builds = 0
    /\ listing = NoListing
    /\ FUNCTION_REGISTRY = <<>>
    /\ AVAILABLE_FUNCTION_NAMES = <<>>
    /\ call = NoCall

NextServer ==
    \/ ImportRegistryBuilder
    \/ ImportServer
    \/ Run
    \/ ListFunctions
    \/ DeliverListing
    \/ CallPlainly
    \/ \E response \in Responses : Respond(response)
    \/ Deliver

SpecServer == InitServer /\ [][NextServer]_vars

\* SpecTypes: the type tag of one parameter, for every annotation and every
\* outcome of get_type_hints that _get_type_hints_safely handles
InitTypes ==
    /\ installed = Repository
    /\ environ = Environ
    /\ lifespan = NotEntered
    /\ phase = "start"
    /\ builds = 0
    /\ listing = NoListing
    /\ FUNCTION_REGISTRY = <<>>
    /\ AVAILABLE_FUNCTION_NAMES = <<>>
    /\ call = NoCall
    /\ WRITE_ENABLED = FALSE
    /\ ALLOW_PRODUCTION = FALSE
    /\ DRY_RUN_DEFAULT = FALSE
    /\ ALLOWED_WORKSPACE_PATTERNS = split(DefaultWorkspaces)
    /\ now = 0
    /\ requests = RateLimiterInit
    /\ limit = 0
    /\ window_seconds = 0
    /\ calls = [o \in OpNames |-> <<>>]
    /\ decorated = <<>>
    /\ pc = [t \in Tasks |-> Idle]
    /\ last = NoLast
    /\ inspected \in [annotation : {<<>>} \cup {<<t>> : t \in Annotations},
                      get_type_hints : {"ok", "NameError", "AttributeError", "TypeError"}]
    /\ param_info = <<>>

SpecTypes == InitTypes /\ [][ExtractParameterType]_vars

\* SpecLifespan: the server of the repository from mcp.run() to its end,
\* in every environment
InitLifespan ==
    /\ WRITE_ENABLED = TRUE
    /\ ALLOW_PRODUCTION = FALSE
    /\ DRY_RUN_DEFAULT = FALSE
    /\ ALLOWED_WORKSPACE_PATTERNS = split(DefaultWorkspaces)
    /\ now = 0
    /\ requests = RateLimiterInit
    /\ limit = 0
    /\ window_seconds = 0
    /\ calls = [o \in OpNames |-> <<>>]
    /\ decorated = <<>>
    /\ pc = [t \in Tasks |-> Idle]
    /\ last = NoLast
    /\ installed = Repository
    /\ environ \in Environs
    /\ lifespan = NotEntered
    /\ inspected = NoParam
    /\ param_info = <<>>
    /\ phase = "server"
    /\ builds = 1
    /\ listing = NoListing
    /\ FUNCTION_REGISTRY = build_function_registry
    /\ AVAILABLE_FUNCTION_NAMES = RegistrationOrder
    /\ call = NoCall

NextLifespan ==
    \/ Run
    \/ CallPlainly
    \/ \E response \in Responses : Respond(response)
    \/ Deliver
    \/ \E how \in {"returned", "thrown"} : Shutdown(how)

SpecLifespan == InitLifespan /\ [][NextLifespan]_vars

----------------------------------------------------------------------------
(* Sequences of timestamps *)

\* the sequence s without its first n entries
DropFirst(s, n) == SubSeq(s, n + 1, Len(s))

\* later is what is left of earlier once some of its oldest entries are gone
PrunedFrom(later, earlier) ==
    \E n \in 0..Len(earlier) : later = DropFirst(earlier, n)

----------------------------------------------------------------------------
(* Claims about calls through the dispatcher, checked under Spec *)

\* the call in progress or just returned has sent an HTTP request
RequestIssued == call # NoCall /\ call.request # <<>>

\* the value the call passed for a flag of the tool, its default if none
Passed_(name) ==
    IF name \in DOMAIN call.kwargs THEN call.kwargs[name] ELSE "False"

\* the tools that declare a confirm parameter
DeclaresConfirm ==
    {n \in DOMAIN FUNCTION_REGISTRY :
        "confirm" \in DOMAIN Signature(Deref(FUNCTION_REGISTRY[n].implementation)).optional}

\* C1: for every registered tool, when the process-wide write-enable flag is
\* off, no call_function invocation of that tool issues an outbound API
\* request.
C1_KillSwitch ==
    ~WRITE_ENABLED => ~RequestIssued

\* C6: for every registered tool that declares a dry_run parameter (all of
\* them do), an invocation with dry_run=true makes no outbound HTTP request.
C6_DryRunSendsNothing ==
    (call # NoCall /\ Passed_("dry_run") = "True") => ~RequestIssued

\* C7: for each destructive tool that declares a confirm parameter, an
\* outbound request is issued only if the invocation has confirm=true.
C7_RequestOnlyIfConfirmed ==
    (RequestIssued /\ call.function_name \in DeclaresConfirm)
        => Passed_("confirm") = "True"

\* the call was made with a name no tool is registered under
UnknownName == call # NoCall /\ call.function_name \notin DOMAIN FUNCTION_REGISTRY

\* C12: calling call_function with a tool name that is not in the registry
\* returns (does not raise) a "Function not found" error whose
\* available_functions lists at most 10 registry names and whose
\* total_available equals the full registry size, and no tool implementation
\* is invoked.
C12_FunctionNotFound ==
    UnknownName =>
        /\ call.kind = "returned"
        /\ call.caught = "none"
        /\ call.result.error = "Function not found"
        /\ call.result.function = call.function_name
        /\ Len(call.result.available_functions) <= 10
        /\ \A i \in DOMAIN call.result.available_functions :
                call.result.available_functions[i] \in DOMAIN FUNCTION_REGISTRY
        /\ call.result.total_available = Cardinality(DOMAIN FUNCTION_REGISTRY)
        /\ ~call.invoked
        /\ call.request = <<>>

\* an unknown name was called while the registry holds more than 10 tools
C12_Witness ==
    /\ UnknownName
    /\ call.kind = "returned"
    /\ Cardinality(DOMAIN FUNCTION_REGISTRY) > 10
    /\ Len(call.result.available_functions) = 10

\* the call was made with the name of a registered tool
RegisteredName == call # NoCall /\ call.function_name \in DOMAIN FUNCTION_REGISTRY

\* the call returned an "Invalid parameters" error without calling the tool
InvalidParameters ==
    /\ call.kind = "returned"
    /\ call.caught = "none"
    /\ call.result.error = "Invalid parameters"
    /\ ~call.called
    /\ ~call.invoked
    /\ call.request = <<>>

\* C13: calling call_function for a registered tool with a parameters value
\* that is a string which is not valid JSON, a string that parses to a JSON
\* value other than an object, or a value that is neither a mapping, a string
\* nor absent, returns an "Invalid parameters" error (naming the received
\* type in the last case) and does not invoke the tool implementation;
\* absent parameters invoke the implementation with no arguments besides the
\* context.
C13_InvalidParameters ==
    RegisteredName =>
        LET p == call.parameters
        IN  /\ (p.type = "str" /\ p.text.json # "object") => InvalidParameters
            /\ p.type \notin {"dict", "str", "NoneType"} =>
                    (InvalidParameters /\ call.result.message[2] = p.type)
            /\ p.type = "NoneType" =>
                    (/\ call.called
                     /\ call.kwargs = <<>>
                     /\ call.invoked =
                            (Signature(Deref(FUNCTION_REGISTRY[call.function_name].implementation)).required
                                = {}))

\* a registered tool was called with a string holding a JSON array
C13_Witness ==
    /\ RegisteredName
    /\ call.parameters.type = "str"
    /\ call.parameters.text.json = "array"
    /\ call.kind = "returned"
    /\ call.result.error = "Invalid parameters"

\* C14: call_function never propagates a failure to its caller: for every
\* tool name, every parameters value and every failure raised by a guard, by
\* a tool's own validation or by the transport, the call ends by returning a
\* value (a result or an error mapping).
C14_NeverPropagates ==
    call # NoCall =>
        /\ call.kind \in {"http", "returned"}
        /\ call.kind = "returned" =>
            /\ call.result # <<>>
            /\ call.caught # "none" => call.result.error = "Internal error"

\* a transport failure of a tool's request was turned into a returned error
C14_Witness ==
    /\ call # NoCall
    /\ call.kind = "returned"
    /\ call.request # <<>>
    /\ call.caught = "ConnectError"
    /\ call.result.error = "Internal error"

----------------------------------------------------------------------------
(* Claims about the registry, checked under SpecServer *)

\* the registered tools whose metadata was extracted, not the fallback record
Extracted == {name \in DOMAIN FUNCTION_REGISTRY : "error" \notin DOMAIN FUNCTION_REGISTRY[name]}

\* the parameter names a registered tool declares
DeclaredNames(name) == DOMAIN Deref(FUNCTION_REGISTRY[name].implementation).parameters

\* C16: for every registered tool, the key set of its metadata's parameters
\* mapping is the tool's declared parameter names minus the first parameter
\* ctx: every other declared parameter has an entry and ctx has none, in the
\* registry and in the result of list_functions.
C16_ParametersWithoutCtx ==
    \A name \in Extracted :
        /\ DOMAIN FUNCTION_REGISTRY[name].parameters = DeclaredNames(name) \ {"ctx"}
        /\ listing # NoListing =>
                DOMAIN listing.result.available_functions[name].parameters
                    = DeclaredNames(name) \ {"ctx"}

Members == UNION {{tools[i].members[n] : n \in DOMAIN tools[i].members} : i \in DOMAIN tools}

\* the fallback record of a callable
IsFallback(metadata, fn) ==
    /\ DOMAIN metadata = {"implementation", "description", "parameters", "error"}
    /\ metadata.implementation = fn.id
    /\ metadata.description[Len(metadata.description)] = "(metadata extraction failed)"
    /\ DOMAIN metadata.parameters = {}

\* C18: extract_function_metadata never raises, whatever callable it is
\* given: when the extraction fails inside, it returns the fallback record,
\* which keeps the implementation, says in its description that the
\* extraction failed, has no parameters and carries the error.
C18_NeverRaises ==
    phase # "start" =>
        \A fn \in Members :
            /\ extract_function_metadata(fn).kind = "return"
            /\ ExtractTry(fn).kind = "raise" =>
                    IsFallback(extract_function_metadata(fn).value, fn)

\* the modules whose import succeeded and which opt in
OptedIn == {i \in DOMAIN tools : tools[i].import = "ok" /\ tools[i].register_mcp_tools}

\* the qualifying tools of a module
Qualifying(i) == {n \in DOMAIN tools[i].members : _is_valid_function(tools[i].members[n], n)}

\* C19: build_function_registry completes whatever module fails to import
\* and whatever tool fails in the extractor: a qualifying tool of an
\* imported module that opts in is in the registry, with its metadata or
\* with the fallback record (its own, or those of a tool of its name in a
\* later module), unless the extractor raised for that very tool, and
\* nothing else is in the registry.
C19_BuildCompletes ==
    phase = "registry_builder" =>
        /\ builds = 1
        /\ \A i \in OptedIn : \A n \in Qualifying(i) :
            extract_function_metadata(tools[i].members[n]).kind = "return" =>
                /\ n \in DOMAIN FUNCTION_REGISTRY
                /\ \E j \in OptedIn :
                    LET fn == tools[j].members[n]
                        r == extract_function_metadata(fn)
                    IN  /\ j >= i
                        /\ n \in Qualifying(j)
                        /\ r.kind = "return"
                        /\ FUNCTION_REGISTRY[n] = r.value
                        /\ ExtractTry(fn).kind = "raise" =>
                                IsFallback(FUNCTION_REGISTRY[n], fn)
        /\ DOMAIN FUNCTION_REGISTRY \subseteq UNION {Qualifying(i) : i \in OptedIn}

\* the build ran on a package with a module whose import failed and a tool
\* the extractor failed on, and the tools of the other modules are registered
C19_Witness ==
    /\ phase = "registry_builder"
    /\ \E i \in DOMAIN tools : tools[i].import # "ok"
    /\ \E fn \in Members : ExtractTry(fn).kind = "raise"
    /\ \E name \in DOMAIN FUNCTION_REGISTRY : "error" \in DOMAIN FUNCTION_REGISTRY[name]
    /\ Cardinality(DOMAIN FUNCTION_REGISTRY) >= 15

\* the names bound in the modules of the tools package
MemberNames == UNION {DOMAIN tools[i].members : i \in DOMAIN tools}

\* C25: a name is a key of the built registry iff some successfully
\* imported module of the tools package with a truthy opt-in marker has a
\* member of that name that is a coroutine function, whose name does not
\* start with "_", and whose declaring module is within the tools package;
\* members of modules without a truthy marker are never registered
C25_KeyIffQualifies ==
    phase # "start" =>
        /\ \A name \in MemberNames :
            name \in DOMAIN FUNCTION_REGISTRY <=>
                \E i \in OptedIn :
                    /\ name \in DOMAIN tools[i].members
                    /\ tools[i].members[name].iscoroutinefunction
                    /\ name \notin {"_build_payload"}
                    /\ Len(tools[i].members[name].module) >= 2
                    /\ SubSeq(tools[i].members[name].module, 1, 2)
                            = <<"braze_mcp_write", "tools">>
        /\ \A name \in DOMAIN FUNCTION_REGISTRY :
                \E i \in OptedIn :
                    /\ name \in DOMAIN tools[i].members
                    /\ FUNCTION_REGISTRY[name].implementation = tools[i].members[name].id

\* the discovered modules in which the name qualifies
QualifiesIn(name) == {i \in OptedIn : name \in Qualifying(i)}

\* C26: when a tool name qualifies in more than one discovered module, the
\* build completes and the registry holds one entry for the name, whose
\* implementation is the one of the module that comes last in discovery
\* order
C26_LastModuleWins ==
    phase # "start" =>
        /\ builds = 1
        /\ \A name \in MemberNames :
            Cardinality(QualifiesIn(name)) > 1 =>
                LET i == CHOOSE i \in QualifiesIn(name) : \A j \in QualifiesIn(name) : j <= i
                IN  /\ name \in DOMAIN FUNCTION_REGISTRY
                    /\ FUNCTION_REGISTRY[name].implementation = tools[i].members[name].id

\* C20: the registry is built once, and wholly, before any list_functions
\* or call_function invocation runs, and no list_functions or call_function
\* invocation changes it: its keys, the cached list of names and the
\* metadata of every tool stay what the build produced.
C20_BuiltOnceThenFixed ==
    /\ [](builds <= 1)
    /\ []((call # NoCall \/ listing # NoListing) => (phase = "serving" /\ builds = 1))
    /\ [][/\ FUNCTION_REGISTRY' # FUNCTION_REGISTRY =>
                (phase = "start" /\ FUNCTION_REGISTRY' = build_function_registry)
          /\ AVAILABLE_FUNCTION_NAMES' # AVAILABLE_FUNCTION_NAMES =>
                (phase = "registry_builder" /\ AVAILABLE_FUNCTION_NAMES' = keys)
          /\ phase' = "serving" =>
                /\ DOMAIN FUNCTION_REGISTRY' =
                        {AVAILABLE_FUNCTION_NAMES'[i] : i \in DOMAIN AVAILABLE_FUNCTION_NAMES'}
                /\ Len(AVAILABLE_FUNCTION_NAMES') = Cardinality(DOMAIN FUNCTION_REGISTRY')]_vars

\* list_functions has answered and a call of a registered tool has returned,
\* with the registry as the one build left it
C20_Witness ==
    /\ phase = "serving"
    /\ builds = 1
    /\ listing # NoListing
    /\ listing.result.total_functions = 21
    /\ call.kind = "returned"
    /\ call.invoked
    /\ Len(AVAILABLE_FUNCTION_NAMES) = 21

----------------------------------------------------------------------------
(* Claims about calls dispatched to a decorated tool, checked under        *)
(* SpecDispatchGate                                                        *)

\* the rejections of the safety gates that are raised to the dispatcher:
\* write disabled, workspace disallowed, rate limit exceeded
Rejections == {"write_disabled", "workspace_blocked", "rate_limit_exceeded"}

\* the call was rejected by one of these gates
RejectedByGate ==
    /\ call # NoCall
    /\ last # NoLast
    /\ last.kind = "raise"
    /\ last.value.text \in Rejections

\* what call_function returns for an unrelated internal failure of the tool
UnrelatedFailure ==
    internal_error(<<"Error calling function", call.function_name>>, "call_function")

\* C15: when a call dispatched through call_function is rejected by a safety
\* gate, the value returned to the caller carries a message that is distinct
\* per rejection kind: it carries the message of the gate that rejected, and
\* differs from what is returned for an unrelated internal failure.
C15_DistinctRejections ==
    RejectedByGate =>
        /\ call.kind = "returned"
        /\ \E i \in DOMAIN call.result.message : call.result.message[i] = last.value.text
        /\ call.result # UnrelatedFailure

----------------------------------------------------------------------------
(* Claims about the rate limiter, checked under SpecRL *)

\* the first L calls for an operation made within the window are admitted;
\* the (L+1)-th call, made while the first is still within the window, is
\* rejected and reports L/L; a call made once the window has elapsed since
\* every earlier admitted call is admitted and reports 1/L
WindowScenario ==
    \A op \in OpNames : \A k \in 1..Len(calls[op]) :
        LET c == calls[op][k]
            first == calls[op][1]
        IN  /\ (k <= limit /\ c.t - first.t < Window) =>
                    (c.allowed /\ c.kind = "OK" /\ c.count = k /\ c.limit = limit)
            /\ (k = limit + 1 /\ c.t - first.t < Window) =>
                    (~c.allowed /\ c.raised = "none" /\ c.kind = "exceeded"
                     /\ c.count = limit /\ c.limit = limit)
            /\ (k > 1 /\ \A j \in 1..(k - 1) :
                            calls[op][j].allowed => c.t - calls[op][j].t >= Window) =>
                    (c.allowed /\ c.kind = "OK" /\ c.count = 1 /\ c.limit = limit)

\* C8: starting from an empty limiter, for a limit L and a window W: the
\* first L calls within the window are admitted, the (L+1)-th call within
\* the window is rejected with a message reporting L/L, and once the window
\* has elapsed a call is admitted and reports 1/L.
C8_WindowScenario == WindowScenario

\* the scenario holds for every limit L >= 1
C8_PositiveLimit == limit >= 1 => WindowScenario

\* the scenario of C8 has happened: L >= 2 calls admitted, the next rejected
\* within the window, and a later call admitted after the window elapsed
C8_Witness ==
    /\ limit >= 2
    /\ window_seconds >= 1
    /\ \E op \in OpNames :
        /\ Len(calls[op]) >= limit + 2
        /\ \A k \in 1..limit : calls[op][k].allowed
        /\ calls[op][limit + 1].kind = "exceeded"
        /\ calls[op][limit + 1].t - calls[op][1].t < Window
        /\ calls[op][limit + 2].allowed
        /\ calls[op][limit + 2].count = 1
        /\ calls[op][limit + 2].t - calls[op][limit].t >= Window

\* the stored sequence after a call made at time t: at most L entries, all
\* strictly newer than t - W
StoredWithinWindow(op) ==
    \A k \in 1..Len(calls[op]) :
        LET c == calls[op][k]
            stored == c.after[op]
        IN  /\ Len(stored) <= limit
            /\ \A i \in 1..Len(stored) : stored[i] > c.t - Window

\* no more than L calls admitted in any interval [s, s + W]
AdmittedPerInterval(op) ==
    \A s \in 0..MaxTime :
        Cardinality({k \in 1..Len(calls[op]) :
            calls[op][k].allowed /\ s <= calls[op][k].t /\ calls[op][k].t <= s + Window})
        <= limit

\* no more than L calls admitted in any interval (s, s + W]
AdmittedPerWindow(op) ==
    \A s \in (0 - Window)..MaxTime :
        Cardinality({k \in 1..Len(calls[op]) :
            calls[op][k].allowed /\ s < calls[op][k].t /\ calls[op][k].t <= s + Window})
        <= limit

\* C9 as stated: for a limit L >= 1 and any window W, after every call the
\* stored sequence of the operation holds at most L entries, all strictly
\* newer than now - W, so no more than L calls are admitted in any interval
\* of length W.
C9_AnyWindow ==
    limit >= 1 => \A op \in OpNames : StoredWithinWindow(op) /\ AdmittedPerInterval(op)

\* C9 amended: for a limit L >= 1 and a window W >= 1, after every call the
\* stored sequence of the operation holds at most L entries, all strictly
\* newer than now - W, so no more than L calls are admitted in any half-open
\* interval (s, s + W].
C9_PositiveWindow ==
    (limit >= 1 /\ window_seconds >= 1) =>
        \A op \in OpNames : StoredWithinWindow(op) /\ AdmittedPerWindow(op)

\* a call at the limit was rejected after an earlier call had pruned entries
C9_Witness ==
    /\ limit >= 2
    /\ window_seconds >= 1
    /\ \E op \in OpNames : \E j, k \in 1..Len(calls[op]) :
        /\ j < k
        /\ Len(calls[op][j].after[op]) < Len(calls[op][j].before[op]) + 1
        /\ calls[op][j].allowed
        /\ ~calls[op][k].allowed
        /\ Len(calls[op][k].after[op]) = limit

\* C11: for every operation, every limit >= 0 and every window >= 0,
\* check_limit returns a pair (allowed, detail) without raising; whenever the
\* in-window count is >= limit, including limit = 0 with no recorded request,
\* it returns allowed = false with a detail reporting the count, the limit
\* and a wait time.
C11_NeverRaises ==
    \A op \in OpNames : \A k \in 1..Len(calls[op]) :
        LET c == calls[op][k]
            in_window == Len(CleanOld(c.before[op], c.t - Window))
        IN  /\ c.raised = "none"
            /\ in_window >= limit =>
                    (~c.allowed /\ c.kind = "exceeded" /\ c.count = in_window
                     /\ c.limit = limit /\ c.wait >= 0)

----------------------------------------------------------------------------
(* Claims about concurrent invocations, checked under SpecRace *)

\* the invocations of the operation that are in flight (suspended at the
\* HTTP request) and passed the rate limit gate within the current window
InFlightInWindow ==
    {t \in Tasks : pc[t].at = "http" /\ pc[t].since > now - Window}

\* C10: the limit is enforced atomically within the process: concurrent
\* invocations sharing one operation name never jointly exceed L admitted
\* calls per window: no interval (s, s + W] holds more than L admitted calls,
\* the limiter never stores more than L timestamps for the operation, and no
\* more than L invocations admitted within the window are in flight at once.
C10_Atomic ==
    /\ AdmittedPerWindow(OperationName)
    /\ Len(requests[OperationName]) <= limit
    /\ Cardinality(InFlightInWindow) <= limit

\* with a limit L >= 2: while one invocation is in flight, a second one was
\* admitted and a later one rejected
C10_Witness ==
    /\ limit >= 2
    /\ \E t \in Tasks : \E j, k \in 1..Len(calls[OperationName]) :
        /\ pc[t].at = "http"
        /\ j < k
        /\ calls[OperationName][j].allowed
        /\ calls[OperationName][j].t >= pc[t].since
        /\ Cardinality({i \in 1..j : calls[OperationName][i].allowed
                                     /\ calls[OperationName][i].t >= pc[t].since}) >= 2
        /\ calls[OperationName][k].kind = "exceeded"
        /\ calls[OperationName][k].t >= pc[t].since

----------------------------------------------------------------------------
(* Claims about the decorators, checked under SpecGate *)

Names(stack) == {stack[i].name : i \in 1..Len(stack)}
Applied(name) == name \in Names(decorated)
Reached(name) == last # NoLast /\ \E i \in 1..Len(last.trace) : last.trace[i] = name
\* the wrapper was reached and let the call through to what it wraps
Passed(name) == Reached(name) /\ last.by # name
WrappedInvoked == last.kind = "invoked" /\ last.invocations = 1
IsPrefix(a, b) == Len(a) <= Len(b) /\ SubSeq(b, 1, Len(a)) = a
Given_(name) == IF name \in DOMAIN last.kwargs THEN last.kwargs[name] ELSE "absent"

IsSafeWriteOperation == Len(decorated) >= 3

GateOrder ==
    <<"validate_write_enabled", "validate_workspace_safety", "require_confirmation",
      "rate_limit", "supports_dry_run">>

\* the guards applied to the operation, in the order of the specification,
\* followed by the wrapped operation
ExpectedOrder == SelectSeq(GateOrder, Applied) \o <<"func">>

\* C2: for an operation wrapped by safe_write_operation, the guards are
\* evaluated in the order write-enabled, workspace, confirmation, rate limit,
\* dry run; the guard that rejects or short-circuits ends the call: no later
\* guard is evaluated (the rate limiter is consulted only when its gate is
\* reached) and the wrapped operation is not invoked, and the wrapped
\* operation is invoked only after every applied guard was evaluated.
C2_GuardOrder ==
    (IsSafeWriteOperation /\ last # NoLast) =>
        /\ IsPrefix(last.trace, ExpectedOrder)
        /\ last.trace[Len(last.trace)] = last.by
        /\ last.kind = "invoked" <=> last.trace = ExpectedOrder
        /\ last.kind # "invoked" => last.invocations = 0
        /\ last.kind = "invoked" => last.invocations = 1
        /\ ~WRITE_ENABLED => last.trace = <<"validate_write_enabled">>
        /\ (last.rl # <<>>) <=> Reached("rate_limit")

\* a fully decorated operation was stopped by the rate-limit gate, after the
\* three gates before it
C2_Witness ==
    /\ Len(decorated) = 5
    /\ last # NoLast
    /\ last.kind = "raise"
    /\ last.by = "rate_limit"
    /\ last.exc = "ValueError"
    /\ last.trace = SubSeq(GateOrder, 1, 4)

\* p occurs in url as a substring
Occurs(p, url) == \E i \in 1..(Len(url) + 1), j \in 0..Len(url) : SubSeq(url, i, j) = p

WorkspaceGate(matches(_)) ==
    (Reached("validate_workspace_safety") /\ last.ctx.braze) =>
        /\ ALLOW_PRODUCTION => Passed("validate_workspace_safety")
        /\ ~ALLOW_PRODUCTION =>
            /\ Passed("validate_workspace_safety") <=>
                    \E i \in 1..Len(ALLOWED_WORKSPACE_PATTERNS) :
                        Occurs(matches(ALLOWED_WORKSPACE_PATTERNS[i]), last.ctx.base_url)
            /\ ~Passed("validate_workspace_safety") =>
                    /\ last.kind = "raise"
                    /\ last.exc = "ValueError"
                    /\ last.value.text = "workspace_blocked"
                    /\ last.value.patterns = ALLOWED_WORKSPACE_PATTERNS
                    /\ last.invocations = 0
            /\ ALLOWED_WORKSPACE_PATTERNS = split(DefaultWorkspaces) =>
                    /\ last.ctx.base_url = Url_demo_east => Passed("validate_workspace_safety")
                    /\ last.ctx.base_url = Url_prod_east => ~Passed("validate_workspace_safety")
        /\ (decorated = <<Wrapper("validate_workspace_safety", 0, 0)>>
                /\ Passed("validate_workspace_safety")) => WrappedInvoked

AsWritten(pattern) == pattern

\* C3 as stated: with the override off, validate_workspace_safety invokes
\* the wrapped operation iff the base address contains at least one allowed
\* pattern as a substring, and otherwise raises an error listing the allowed
\* patterns without invoking it; with the default patterns demo-east passes
\* and prod-east is rejected; with the override on every address passes.
C3_PatternAsWritten == WorkspaceGate(AsWritten)

\* C3 amended: the same, where the address has to contain an allowed pattern
\* with its surrounding whitespace stripped.
C3_PatternStripped == WorkspaceGate(strip)

\* the gate, alone on an operation, rejected prod-east under the default
\* patterns with the override off
C3_Witness ==
    /\ decorated = <<Wrapper("validate_workspace_safety", 0, 0)>>
    /\ ~ALLOW_PRODUCTION
    /\ ALLOWED_WORKSPACE_PATTERNS = split(DefaultWorkspaces)
    /\ last # NoLast
    /\ last.ctx.braze
    /\ last.ctx.base_url = Url_prod_east
    /\ last.kind = "raise"

\* C28: the workspace gate fails closed for every setting of the allowed
\* patterns: with the override off, when no non-empty pattern of the list
\* occurs in the base address (an empty setting, a trailing comma, a blank
\* entry), the wrapped operation is not invoked
C28_FailsClosed ==
    (/\ last # NoLast
     /\ Applied("validate_workspace_safety")
     /\ ~ALLOW_PRODUCTION
     /\ last.ctx.braze
     /\ ~\E i \in 1..Len(ALLOWED_WORKSPACE_PATTERNS) :
            /\ strip(ALLOWED_WORKSPACE_PATTERNS[i]) # <<>>
            /\ Occurs(strip(ALLOWED_WORKSPACE_PATTERNS[i]), last.ctx.base_url))
        => last.invocations = 0

\* the write-enabled, workspace and confirmation gates let the call through
PassedOuterGates ==
    /\ Passed("validate_write_enabled")
    /\ Passed("validate_workspace_safety")
    /\ Applied("require_confirmation") => Passed("require_confirmation")

\* C29: for an operation wrapped by safe_write_operation with a rate limit,
\* a timestamp is recorded for exactly the calls that pass the write-enabled,
\* workspace and confirmation gates and that the limiter admits: a call an
\* outer gate rejects or short-circuits does not reach the limiter and
\* leaves its state as it was, an admitted call leaves its timestamp in the
\* limiter whatever comes after, a dry run included
C29_QuotaForAdmittedCalls ==
    (IsSafeWriteOperation /\ Applied("rate_limit")) =>
        /\ requests[OperationName] =
                IF calls[OperationName] = <<>> THEN <<>>
                ELSE calls[OperationName][Len(calls[OperationName])].after[OperationName]
        /\ last # NoLast =>
            /\ last.rl # <<>> <=> PassedOuterGates
            /\ Len(last.rl) <= 1
            /\ \A i \in DOMAIN last.rl :
                LET c == last.rl[i]
                    own == c.after[OperationName]
                IN  /\ c.raised = "none"
                    /\ c.allowed =>
                            /\ own # <<>>
                            /\ own[Len(own)] = c.t
                            /\ PrunedFrom(SubSeq(own, 1, Len(own) - 1), c.before[OperationName])
                    /\ ~c.allowed => PrunedFrom(own, c.before[OperationName])

\* a second call that ended as a dry run has left its timestamp in the
\* limiter, under a stack with the confirmation gate
C29_Witness ==
    /\ IsSafeWriteOperation
    /\ Applied("rate_limit")
    /\ Applied("require_confirmation")
    /\ last # NoLast
    /\ last.by = "supports_dry_run"
    /\ last.rl # <<>>
    /\ last.rl[1].allowed
    /\ requests[OperationName] = <<now, now>>

\* C4: an operation wrapped by require_confirmation, invoked without
\* confirm=True (absent or false), returns a "requires confirmation"
\* response naming the operation, does not raise and does not invoke the
\* wrapped operation; with confirm=True the wrapped operation is invoked
\* exactly once.
C4_Confirmation ==
    Reached("require_confirmation") =>
        /\ Given_("confirm") # "True" =>
            /\ last.kind = "return"
            /\ last.by = "require_confirmation"
            /\ last.value.error = "Destructive operation requires confirmation"
            /\ last.value.operation = OperationName
            /\ last.invocations = 0
        /\ Given_("confirm") = "True" =>
            /\ Passed("require_confirmation")
            /\ decorated = <<Wrapper("require_confirmation", 0, 0)>> => WrappedInvoked

\* the gate, alone on an operation, answered a call that gave no confirm
C4_Witness ==
    /\ decorated = <<Wrapper("require_confirmation", 0, 0)>>
    /\ last # NoLast
    /\ Given_("confirm") = "absent"
    /\ last.kind = "return"

\* C5: an operation wrapped by supports_dry_run, invoked with dry_run=True,
\* or without dry_run while the dry-run default is on, returns a "would
\* execute" description naming the operation and its arguments and does not
\* invoke the wrapped operation; with dry_run=False the wrapped operation is
\* invoked even when the default is on.
C5_DryRun ==
    Reached("supports_dry_run") =>
        /\ (Given_("dry_run") = "True" \/ (Given_("dry_run") = "absent" /\ DRY_RUN_DEFAULT)) =>
            /\ last.kind = "return"
            /\ last.by = "supports_dry_run"
            /\ last.value.dry_run
            /\ last.value.operation = OperationName
            /\ last.value.function = OperationName
            /\ last.value.kwargs =
                    Without(IF Applied("require_confirmation")
                            THEN Without(last.kwargs, "confirm") ELSE last.kwargs, "dry_run")
            /\ last.invocations = 0
        /\ Given_("dry_run") = "False" => (Passed("supports_dry_run") /\ WrappedInvoked)

\* the interceptor, alone on an operation, let an explicit dry_run=False
\* through while the default was on
C5_Witness ==
    /\ decorated = <<Wrapper("supports_dry_run", 0, 0)>>
    /\ DRY_RUN_DEFAULT
    /\ last # NoLast
    /\ Given_("dry_run") = "False"
    /\ last.kind = "invoked"

----------------------------------------------------------------------------
(* Claims about the arguments the wrapped operation receives, under SpecGate *)

\* the keyword arguments the gates the call went through consume
Consumed ==
    (IF Passed("require_confirmation") THEN {"confirm"} ELSE {})
    \cup (IF Passed("supports_dry_run") THEN {"dry_run"} ELSE {})

\* C30: the confirmation gate consumes the confirm keyword argument and the
\* dry-run interceptor the dry_run keyword argument: an operation invoked
\* through both receives neither, through one of them not the one it
\* consumes, and ctx and every other keyword argument as the caller gave them
C30_ConsumedArguments ==
    (last # NoLast /\ WrappedInvoked /\ Consumed # {}) =>
        /\ DOMAIN last.received = DOMAIN last.kwargs \ Consumed
        /\ \A k \in DOMAIN last.received : last.received[k] = last.kwargs[k]
        /\ last.value.ctx = last.ctx

\* an operation under safe_write_operation(require_confirm=True), called
\* with confirm=True and dry_run=False, was invoked with campaign_id alone
C30_Witness ==
    /\ last # NoLast
    /\ WrappedInvoked
    /\ Consumed = {"confirm", "dry_run"}
    /\ DOMAIN last.kwargs = {"campaign_id", "confirm", "dry_run"}
    /\ DOMAIN last.received = {"campaign_id"}

----------------------------------------------------------------------------
(* Claims about the rate-limit gate alone, under SpecGate *)

\* the rate limiter's view of the call that has just ended under a bare
\* rate_limit(limit, window)
RateLimited == last # NoLast /\ decorated = <<Wrapper("rate_limit", limit, window_seconds)>>

\* C24: an operation wrapped by rate_limit(limit, window) is invoked iff the
\* rate limiter admits the call; when the limit is exceeded the call fails
\* with an error carrying the current count, the limit and the estimated
\* retry delay, and the wrapped operation is not invoked
C24_RateLimitGate ==
    RateLimited =>
        LET c == last.rl[1]
        IN  /\ last.invocations = 1 <=> c.allowed
            /\ ~c.allowed =>
                    /\ last.kind = "raise"
                    /\ last.exc = "ValueError"
                    /\ {"count", "limit", "wait"} \subseteq DOMAIN last.value
                    /\ last.invocations = 0

----------------------------------------------------------------------------
(* Claims about single check_limit calls, under SpecRL *)

\* C22: a check_limit call for an operation leaves the sequence of every
\* other operation as it was; a rejected call appends nothing to the
\* operation's own sequence, and an admitted call appends exactly one
\* timestamp, the time of the call
C22_Frame ==
    \A op \in OpNames : \A k \in 1..Len(calls[op]) :
        LET c == calls[op][k]
            own == c.after[op]
        IN  /\ \A other \in OpNames \ {op} : c.after[other] = c.before[other]
            /\ ~c.allowed => PrunedFrom(own, c.before[op])
            /\ c.allowed =>
                    /\ own # <<>>
                    /\ own[Len(own)] = c.t
                    /\ PrunedFrom(SubSeq(own, 1, Len(own) - 1), c.before[op])

\* a call for one operation was rejected and one admitted while the other
\* operation's sequence held timestamps
C22_Witness ==
    \E op \in OpNames : \E j, k \in 1..Len(calls[op]) :
        /\ calls[op][j].kind = "exceeded"
        /\ calls[op][k].allowed
        /\ \A c \in {calls[op][j], calls[op][k]} :
                \E other \in OpNames \ {op} : c.before[other] # <<>>

\* C23: when check_limit rejects a call at time now with a limit L >= 1, the
\* wait it reports equals oldest + window - now, oldest being the oldest
\* timestamp within the window, and is strictly positive; the next call for
\* the operation, made at or after now + wait, is admitted
C23_ReportedWait ==
    limit >= 1 =>
        \A op \in OpNames : \A k \in 1..Len(calls[op]) :
            LET c == calls[op][k]
                oldest == c.after[op][1]
            IN  c.kind = "exceeded" =>
                    /\ timedelta(c.wait) = oldest + Window - c.t
                    /\ c.wait > 0
                    /\ \A j \in 1..Len(calls[op]) :
                            (j = k + 1 /\ calls[op][j].t >= c.t + timedelta(c.wait))
                                => calls[op][j].allowed

----------------------------------------------------------------------------
(* Claims about the lifespan, under SpecLifespan *)

Missing(name) == name \notin DOMAIN environ \/ environ[name] = <<>>

\* C21: with the API key or the base address missing the lifespan raises at
\* startup and no HTTP client exists; otherwise there is exactly one client,
\* every request of every invocation goes through it while it is open, and
\* once the lifespan has ended, by a return or by an exception, it is closed
C21_OneClientForTheLifespan ==
    LET missing == Missing("BRAZE_API_KEY") \/ Missing("BRAZE_BASE_URL")
    IN  /\ missing => /\ lifespan.at \in {"before", "raised"}
                      /\ lifespan.clients = <<>>
                      /\ call = NoCall
        /\ lifespan.at = "raised" => missing
        /\ lifespan.at = "yielded" => lifespan.clients = <<"open">>
        /\ call # NoCall =>
                /\ lifespan.clients = <<"open">>
                /\ call.kind = "http" => call.request[1].client = 1
        /\ lifespan.at \in {"returned", "thrown"} => lifespan.clients = <<"closed">>

C21_Witness ==
    /\ lifespan.at = "thrown"
    /\ lifespan.clients = <<"closed">>
    /\ environ["BRAZE_BASE_URL"] = Url_poc \o <<"/", "/">>

----------------------------------------------------------------------------
(* Claims about the type tag of a parameter, under SpecTypes *)

Tags == {"string", "integer", "boolean", "number", "array", "object", "null"}

\* the rule for an annotation that is no union: the null type gives null,
\* list and tuple generics give array, dict generics give object, str, int,
\* bool, float, list and dict give their tags, any other type gives object
TagOfAlternative(t) ==
    CASE t.kind = "NoneType" -> "null"
      [] t.kind = "generic" /\ t.name \in {"list", "tuple"} -> "array"
      [] t.kind = "generic" /\ t.name = "dict" -> "object"
      [] t.kind = "class" /\ t.name = "str" -> "string"
      [] t.kind = "class" /\ t.name = "int" -> "integer"
      [] t.kind = "class" /\ t.name = "bool" -> "boolean"
      [] t.kind = "class" /\ t.name = "float" -> "number"
      [] t.kind = "class" /\ t.name = "list" -> "array"
      [] t.kind = "class" /\ t.name = "dict" -> "object"
      [] OTHER -> "object"

\* the rule for every annotation: a union gives the tag of its first
\* non-null alternative, null if it has none
TagOf(t) ==
    IF t.kind # "Union" THEN TagOfAlternative(t)
    ELSE LET others == SelectSeq(t.args, LAMBDA a : a # NoneType)
         IN  IF others = <<>> THEN "null" ELSE TagOfAlternative(others[1])

====
